---------------------------- MODULE Spec2Model ----------------------------
(***************************************************************************)
(* Client-side synchronization engine of the Taproot Assets extension:     *)
(*   - WebSocketManager (services/websocket.manager.js): the three topic   *)
(*     sockets, the reconnect timer and the fallback-polling interval;     *)
(*   - the Vue app of index.js (the iteration that owns its own sockets):  *)
(*     the local invoice/payment collections, the poll responses and the   *)
(*     push-message handlers, the getInvoices responses and pushes in      *)
(*     flight, its sockets, reconnect timer and auto-refresh interval;     *)
(*   - the pure diff functions findChanges / checkForChanges;              *)
(*   - the Vue component of index.js that the WebSocketManager serves      *)
(*     (lines 239-1112): its fetches, its created-invoice dialog and the   *)
(*     manager's message handlers acting on it; its transaction table      *)
(*     (combineTransactions, applyFilters, pagination) and its payment     *)
(*     dialog with PaymentService.payInvoice / processInternalPayment;     *)
(*     its invoice dialog and the createInvoice requests in flight;        *)
(*   - the mapping of a transaction for display (_mapInvoice, _mapPayment, *)
(*     mapTransaction) on records and the extra objects they refer to.     *)
(***************************************************************************)
EXTENDS Integers, Sequences, FiniteSets, TLC

VARIABLES
    mgr,            \* WebSocketManager: connections, state, handlers, published store status
    polled,         \* history: the last step invoked handlers.onPollingRequired
    autoReconnects, \* history: reconnect-timer connect() calls since the last explicit connect()/open
    counting,       \* whether this behaviour records autoReconnects
    ctorThrows,     \* environment: new WebSocket(wsUrl) throws on this page
    app,            \* Vue app: invoices, payments, notifications shown, asset refreshes scheduled
    incoming,       \* scenario: the invoice snapshot (response.data) under observation
    applied,        \* scenario: how many times getInvoices has applied that snapshot
    diff,           \* scenario: what the last diff of that snapshot reported
    watched,        \* scenario: id of the invoice whose payment is delivered twice (0: none)
    delivered,      \* scenario: the channels that have delivered that payment
    page,           \* Vue component served by the WebSocketManager (index.js 239-1112)
    view,           \* the component's transaction table: collections, filters, pagination
    pay,            \* the component's payment dialog, the requests in flight, the asset store
    objects,        \* a transaction record, the extra object it refers to, its mapped copy
    server,         \* the backend's invoices, the getInvoices responses and the pushes in flight
    sockets,        \* the app's own sockets, its reconnect timer and its auto-refresh interval
    form            \* the component's invoice dialog and the createInvoice requests in flight

mgrVars == <<mgr, polled, autoReconnects, counting, ctorThrows>>

appVars == <<app, incoming, applied, diff, watched, delivered, page, view, pay, objects, server, sockets, form>>

vars == <<mgr, polled, autoReconnects, counting, ctorThrows,
          app, incoming, applied, diff, watched, delivered, page, view, pay, objects, server, sockets, form>>

-----------------------------------------------------------------------------
(* Bounds of the model *)

\* sockets per topic that are no longer referenced by connections[topic] but
\* have not delivered their close event yet
MaxDetached == 1

\* pending reconnect timers that state.reconnectTimeout no longer references,
\* and running polling intervals that state.pollingInterval no longer references
MaxLeaked == 1

\* invoice ids and payment ids are 1..MaxId
MaxId == 2

\* how many times getInvoices applies the snapshot under observation
MaxApplications == 2

\* invoices and payments are written by disjoint handlers: the smaller of the
\* two collections holds at most MaxMixed entries
MaxMixed == 0

\* ids of the invoices and of the payments the served component holds
MaxHeld == 1

\* toasts, listassets requests and logged handler errors counted per behaviour
MaxEffects == 2

\* invoices and payments in the transaction table
MaxRows == 2

\* instants per calendar day: the first is 00:00:00.000, the last 23:59:59.999
TicksPerDay == 2

\* largest user_balance of an asset; asset amounts paid reach one above it
MaxBalance == 2

\* pay and internal-payment requests in flight
MaxPending == 2

\* list responses in flight, and push messages in flight, at a time
MaxInFlight == 2

\* rows shown per page of the transaction table (rowsPerPage: 10 in data(),
\* scaled down to tables of MaxRows rows)
RowsPerPage == 1

(* Program constants *)

maxReconnectAttempts == 5

-----------------------------------------------------------------------------
(* Vue app of index.js: collections, poll responses, push messages *)

Ids == 1..MaxId

\* of an entity, the model keeps id and status, the type and direction that
\* mapTransaction adds, and the marks _isNew, _statusChanged, _previousStatus
InvoiceStatuses == {"pending", "paid"}

PaymentStatuses == {"pending", "completed"}

\* entities as the backend sends them
RawInvoices == [id : Ids, status : InvoiceStatuses]

RawPayments == [id : Ids, status : PaymentStatuses]

\* response.data of a list request: each entity once, in the backend's order
\* (here: by id)
Snapshots(raw) ==
    {sq \in UNION {[1..n -> raw] : n \in 0..MaxId} :
        \A i, j \in DOMAIN sq : i < j => sq[i].id < sq[j].id}

\* response.data is the array sq / is not an array
ArrayResponse(sq) == [isArray |-> TRUE, data |-> sq]

NoArrayResponse == [isArray |-> FALSE, data |-> <<>>]

Responses(raw) == {ArrayResponse(sq) : sq \in Snapshots(raw)} \cup {NoArrayResponse}

\* JSON.parse(event.data): {type, data} or {type}
Messages(raw) ==
    [type : {"invoice_update", "payment_update"}, data : raw]
        \cup [type : {"invoice_update", "payment_update"}]

\* {...transaction} with type and direction set
mapTransaction(transaction, type) ==
    [type |-> type,
     direction |-> IF type = "invoice" THEN "incoming" ELSE "outgoing"] @@ transaction

mapInvoice(invoice) == mapTransaction(invoice, "invoice")

mapPayment(payment) == mapTransaction(payment, "payment")

\* items.findIndex(item => item.id === id); 0 stands for -1
findIndex(items, id) ==
    IF \E i \in DOMAIN items : items[i].id = id
    THEN CHOOSE i \in DOMAIN items :
             /\ items[i].id = id
             /\ \A j \in DOMAIN items : items[j].id = id => i <= j
    ELSE 0

\* existingItems.forEach(item => existingMap[item.id] = item)
existingMap(existingItems) ==
    [id \in {existingItems[i].id : i \in DOMAIN existingItems} |->
        existingItems[CHOOSE i \in DOMAIN existingItems :
                          /\ existingItems[i].id = id
                          /\ \A j \in DOMAIN existingItems :
                                 existingItems[j].id = id => j <= i]]

\* the marks either diff function sets on newItem
markChange(newItem, map) ==
    IF newItem.id \notin DOMAIN map
    THEN [_isNew |-> TRUE] @@ newItem
    ELSE IF map[newItem.id].status # newItem.status
    THEN [_previousStatus |-> map[newItem.id].status, _statusChanged |-> TRUE] @@ newItem
    ELSE newItem

\* returns the boolean and the marked newItems
checkForChanges(newItems, existingItems) ==
    IF Len(newItems) # Len(existingItems)
    THEN [hasChanges |-> TRUE, newItems |-> newItems]
    ELSE LET map == existingMap(existingItems)
         IN  [hasChanges |->
                  \E i \in DOMAIN newItems :
                      \/ newItems[i].id \notin DOMAIN map
                      \/ map[newItems[i].id].status # newItems[i].status,
              newItems |-> [i \in DOMAIN newItems |-> markChange(newItems[i], map)]]

\* InvoiceService.findChanges: {new, updated}
findChanges(newInvoices, existingInvoices) ==
    LET map == existingMap(existingInvoices)
        isAbsent(newItem) == newItem.id \notin DOMAIN map
        isUpdated(newItem) ==
            /\ newItem.id \in DOMAIN map
            /\ map[newItem.id].status # newItem.status
        newItems == SelectSeq(newInvoices, isAbsent)
        updatedItems == SelectSeq(newInvoices, isUpdated)
    IN  [new |-> [i \in DOMAIN newItems |-> markChange(newItems[i], map)],
         updated |-> [i \in DOMAIN updatedItems |-> markChange(updatedItems[i], map)]]

\* data() of the app, as far as modelled
appInitial ==
    [invoices |-> <<>>, payments |-> <<>>, notifications |-> 0, assetRefreshes |-> 0]

processedInvoices(response) ==
    IF response.isArray
    THEN [i \in DOMAIN response.data |-> mapInvoice(response.data[i])]
    ELSE <<>>

processedPayments(response) ==
    IF response.isArray
    THEN [i \in DOMAIN response.data |-> mapPayment(response.data[i])]
    ELSE <<>>

\* variant: a later poll never replaces the collection
getInvoicesKeepingLocal(a, isInitialLoad, response) ==
    IF Len(a.invoices) = 0 \/ isInitialLoad
    THEN [a EXCEPT !.invoices = processedInvoices(response)]
    ELSE a

\* the .then callback of getInvoices(isInitialLoad)
getInvoices(a, isInitialLoad, response) ==
    IF Len(a.invoices) = 0 \/ isInitialLoad
    THEN [a EXCEPT !.invoices = processedInvoices(response)]
    ELSE LET checked == checkForChanges(processedInvoices(response), a.invoices)
         IN  IF checked.hasChanges THEN [a EXCEPT !.invoices = checked.newItems]
             ELSE a

\* the .then callback of getPayments
getPayments(a, response) ==
    [a EXCEPT !.payments = processedPayments(response)]

\* variant: every update is appended, whether or not its id is known
appendInvoiceMessage(a, data) ==
    IF data.type = "invoice_update" /\ "data" \in DOMAIN data
    THEN [a EXCEPT !.invoices = Append(@, [_isNew |-> TRUE] @@ mapInvoice(data.data))]
    ELSE a

handleInvoiceWebSocketMessage(a, data) ==
    IF data.type = "invoice_update" /\ "data" \in DOMAIN data
    THEN LET index == findIndex(a.invoices, data.data.id)
         IN  IF index # 0
             THEN LET updatedInvoice ==
                          [_statusChanged |-> TRUE]
                              @@ mapInvoice(data.data @@ a.invoices[index])
                      b == [a EXCEPT !.invoices[index] = updatedInvoice]
                  IN  IF data.data.status = "paid" /\ b.invoices[index].status # "paid"
                      THEN [b EXCEPT !.notifications = @ + 1,
                                     !.assetRefreshes = @ + 1]
                      ELSE b
             ELSE [a EXCEPT !.invoices =
                       Append(@, [_isNew |-> TRUE] @@ mapInvoice(data.data))]
    ELSE a

handlePaymentWebSocketMessage(a, data) ==
    IF data.type = "payment_update" /\ "data" \in DOMAIN data
    THEN LET index == findIndex(a.payments, data.data.id)
         IN  IF index # 0
             THEN [a EXCEPT !.payments[index] =
                       [_statusChanged |-> TRUE]
                           @@ mapPayment(data.data @@ a.payments[index])]
             ELSE [a EXCEPT !.payments =
                       Append(@, [_isNew |-> TRUE] @@ mapPayment(data.data))]
    ELSE a

\* the backend holding no invoice, nothing in flight
serverInitial == [invoices |-> <<>>, polls |-> <<>>, pushes |-> <<>>]

-----------------------------------------------------------------------------
(* The app's own sockets and its auto-refresh interval *)

SocketTypes == {"invoices", "payments", "balances"}

\* websockets[type]: TRUE for a socket, FALSE for null; detached[type]: sockets
\* this.websockets no longer refers to that have not delivered their close
\* event; the two timers: TRUE for a timer id, FALSE for null
socketsInitial ==
    [websockets |-> [type \in SocketTypes |-> FALSE],
     detached |-> [type \in SocketTypes |-> 0],
     websocketConnected |-> FALSE,
     websocketReconnectTimeout |-> FALSE,
     refreshInterval |-> FALSE]

stopAutoRefresh(w) == [w EXCEPT !.refreshInterval = FALSE]

startAutoRefresh(w) ==
    IF w.websocketConnected THEN w
    ELSE [stopAutoRefresh(w) EXCEPT !.refreshInterval = TRUE]

\* the sockets close()d keep their onclose handlers
closeWebSockets(w) ==
    [w EXCEPT !.detached = [type \in SocketTypes |->
                               @[type] + (IF w.websockets[type] THEN 1 ELSE 0)],
              !.websockets = [type \in SocketTypes |-> FALSE],
              !.websocketReconnectTimeout = FALSE,
              !.websocketConnected = FALSE]

\* throws: the first new WebSocket(url) throws
setupWebSockets(w, throws) ==
    LET a == closeWebSockets(w)
    IN  IF throws
        THEN startAutoRefresh([a EXCEPT !.websocketConnected = FALSE])
        ELSE [a EXCEPT !.websockets = [type \in SocketTypes |-> TRUE],
                       !.websocketConnected = TRUE]

\* own: the close event is the one of the socket websockets[type] refers to;
\* otherwise the socket websockets[type] referred to, if any, lives on
handleWebSocketClose(w, type, own) ==
    LET a == [w EXCEPT !.websockets[type] = FALSE,
                       !.detached[type] =
                           @ + (IF ~own /\ w.websockets[type] THEN 1 ELSE 0)]
    IN  IF \A t \in SocketTypes : ~a.websockets[t]
        THEN startAutoRefresh(
                 [a EXCEPT !.websocketConnected = FALSE,
                           !.websocketReconnectTimeout = TRUE])
        ELSE a

\* the setTimeout callback of handleWebSocketClose
websocketReconnectCallback(w, throws) ==
    [setupWebSockets(w, throws) EXCEPT !.websocketReconnectTimeout = FALSE]

\* created(): the user has a wallet
app_created(w, throws) == setupWebSockets(w, throws)

app_activated(w, throws) ==
    IF ~w.websocketConnected THEN setupWebSockets(w, throws) ELSE w

app_deactivated(w) == stopAutoRefresh(w)

app_beforeUnmount(w) == closeWebSockets(stopAutoRefresh(w))

-----------------------------------------------------------------------------
(* Vue component of index.js 239-1112, the consumer of the WebSocketManager *)

\* what a fetch settles with: the response, or a rejection
Fetched(response) == [ok |-> TRUE, response |-> response]

Rejected == [ok |-> FALSE]

FetchOutcomes(raw) == {Fetched(r) : r \in Responses(raw)} \cup {Rejected}

\* listassets responses: entries keep their asset_id only
AssetSnapshots ==
    {<<>>, <<[asset_id |-> "a"]>>, <<[asset_id |-> "a"], [asset_id |-> "b"]>>}

AssetOutcomes ==
    {Fetched(ArrayResponse(sq)) : sq \in AssetSnapshots}
        \cup {Fetched(NoArrayResponse), Rejected}

_mapInvoice(invoice) == [type |-> "invoice", direction |-> "incoming"] @@ invoice

_mapPayment(payment) == [type |-> "payment", direction |-> "outgoing"] @@ payment

\* data() of the component, as far as modelled

\* createdInvoice: null
NoInvoice == [id |-> 0, payment_hash |-> "none"]

Hashes == {"abc", "xyz"}

\* the invoice InvoiceService.createInvoice resolves with
HeldIds == 1..MaxHeld

\* pushed entities may carry an id the component does not hold
PushedIds == 1..(MaxHeld + 1)

HeldInvoices == [id : HeldIds, status : InvoiceStatuses]

HeldPayments == [id : HeldIds, status : PaymentStatuses]

CreatedInvoices == [id : HeldIds, payment_hash : Hashes]

\* invoices as pushed on the invoices topic
PushedInvoices == [id : PushedIds, status : InvoiceStatuses, payment_hash : Hashes]

\* event.data that JSON.parse rejects
NotJson == [malformed |-> TRUE]

\* event.data is the JSON text null
JsonNull == [isNull |-> TRUE]

\* message events of a topic: not JSON, null, or an object with a type and,
\* possibly, a data member
Events(raw) == Messages(raw) \cup {NotJson, JsonNull}

\* JSON.parse returned an object
IsObject(event) == event # NotJson /\ event # JsonNull

\* message events of the balances topic; isArray: Array.isArray(data.data)
BalanceEvents ==
    [type : {"assets_update", "invoice_update"}, isArray : {TRUE}, data : AssetSnapshots]
        \cup [type : {"assets_update", "invoice_update"}, isArray : {FALSE}, data : {<<>>}]
        \cup {NotJson, JsonNull}

\* notifications: "Invoice Paid" toasts shown (the other toasts are not kept);
\* assetRequests: listassets requests issued; outstanding: those of them the
\* manager issued through AssetService that have not settled; errorsLogged:
\* console.error calls of the manager's message handlers; appIsComponent: whether window.app
\* exposes the component's methods (index.js assigns it the application
\* Vue.createApp returns; what the hosting page mounts is not in the source);
\* refreshDropped: getAssets() has returned at its isRefreshing test and no
\* listassets request of the component has begun since
pageInitial ==
    [assets |-> <<>>, invoices |-> <<>>, payments |-> <<>>, isRefreshing |-> FALSE,
     createdInvoiceDialog |-> [show |-> FALSE], createdInvoice |-> NoInvoice,
     notifications |-> 0, assetRequests |-> 0, outstanding |-> 0,
     errorsLogged |-> 0, appIsComponent |-> FALSE, refreshDropped |-> FALSE]

\* getAssets() up to its await
pageGetAssets(pg) ==
    IF pg.isRefreshing THEN [pg EXCEPT !.refreshDropped = TRUE]
    ELSE [pg EXCEPT !.isRefreshing = TRUE, !.assetRequests = @ + 1,
                    !.refreshDropped = FALSE]

\* getAssets() from its await on: AssetService.getAssets settles
pageGetAssetsSettles(pg, outcome) ==
    [pg EXCEPT !.assets = IF outcome.ok /\ outcome.response.isArray
                          THEN outcome.response.data
                          ELSE <<>>,
               !.isRefreshing = FALSE]

\* getInvoices(): InvoiceService.getInvoices settles
pageGetInvoices(pg, outcome) ==
    [pg EXCEPT !.invoices =
        IF outcome.ok /\ outcome.response.isArray
        THEN [i \in DOMAIN outcome.response.data |->
                 _mapInvoice(outcome.response.data[i])]
        ELSE <<>>]

\* getPayments(): PaymentService.getPayments settles
pageGetPayments(pg, outcome) ==
    [pg EXCEPT !.payments =
        IF outcome.ok /\ outcome.response.isArray
        THEN [i \in DOMAIN outcome.response.data |->
                 _mapPayment(outcome.response.data[i])]
        ELSE <<>>]

\* the invoice InvoiceService.processWebSocketUpdate returns, NoInvoice for null
\* (taprootStore.actions.addInvoice: the store is not part of the component)
processWebSocketUpdate(data) ==
    IF data # JsonNull /\ data.type = "invoice_update" /\ "data" \in DOMAIN data
    THEN _mapInvoice(data.data)
    ELSE NoInvoice

\* variant: a handler whose catch block drops the invoices held as well
logErrorAndReset(pg) == [pg EXCEPT !.errorsLogged = @ + 1, !.invoices = <<>>,
                                   !.notifications = 0]

\* the catch block of a message handler: console.error
logError(pg) == [pg EXCEPT !.errorsLogged = @ + 1]

NotificationService_notifyInvoicePaid(pg) == [pg EXCEPT !.notifications = @ + 1]

\* window.app is the application Vue.createApp returns and no component
\* defines handlePaidInvoice: typeof window.app.handlePaidInvoice is never
\* 'function', the NotificationService branch runs
_handleInvoiceMessage(pg, event) ==
    IF event = NotJson THEN logError(pg)
    ELSE LET processedInvoice == processWebSocketUpdate(event)
         IN  IF processedInvoice # NoInvoice /\ processedInvoice.status = "paid"
             THEN NotificationService_notifyInvoicePaid(pg)
             ELSE pg

\* submitInvoiceForm(): InvoiceService.createInvoice settles; channelOffline:
\* the rejection's message names an offline or unavailable channel
submitInvoiceForm(pg, outcome, channelOffline) ==
    IF outcome.ok
    THEN [pg EXCEPT !.createdInvoice = outcome.response,
                    !.createdInvoiceDialog.show = TRUE]
    ELSE IF channelOffline
         THEN [pageGetAssets(pg) EXCEPT !.createdInvoice = NoInvoice]
         ELSE pg

\* payments as pushed on the payments topic
PushedPayments == [id : PushedIds, status : PaymentStatuses \cup {"failed"}]

\* the payment PaymentService.processWebSocketUpdate returns, NoInvoice for null
processPaymentWebSocketUpdate(data) ==
    IF data # JsonNull /\ data.type = "payment_update" /\ "data" \in DOMAIN data
    THEN _mapPayment(data.data)
    ELSE NoInvoice

\* AssetService.getAssets(wallet) called by the manager itself: a request
\* whose result goes to the store, not to the component
AssetService_getAssets(pg) ==
    [pg EXCEPT !.assetRequests = @ + 1, !.outstanding = @ + 1]

\* window.app.getAssets() if window.app has that method, else
\* AssetService.getAssets(taprootStore.getters.getCurrentWallet()); the store
\* holds the wallet of the last transactions fetch
refreshAssetsFromManager(pg) ==
    IF pg.appIsComponent THEN pageGetAssets(pg) ELSE AssetService_getAssets(pg)

_handlePaymentMessage(pg, event) ==
    IF event = NotJson THEN logError(pg)
    ELSE LET processedPayment == processPaymentWebSocketUpdate(event)
         IN  IF processedPayment # NoInvoice /\ processedPayment.status = "completed"
             THEN refreshAssetsFromManager(pg)
             ELSE pg

\* data.type of null throws; the wallet of the fallback branch is the store's
_handleBalanceMessage(pg, event) ==
    IF event = NotJson \/ event = JsonNull THEN logError(pg)
    ELSE IF event.type = "assets_update" /\ event.isArray
         THEN refreshAssetsFromManager(pg)
         ELSE pg

-----------------------------------------------------------------------------
(* Transaction table of the component: combine, filter, paginate *)

\* local calendar days and their first and last instant
StartOfDay(day) == day * TicksPerDay

EndOfDay(day) == (day + 1) * TicksPerDay - 1

\* date.setHours(0, 0, 0, 0) and date.setHours(23, 59, 59, 999)
setHoursStart(date) == (date \div TicksPerDay) * TicksPerDay

setHoursEnd(date) == (date \div TicksPerDay) * TicksPerDay + TicksPerDay - 1

\* strings are sequences of characters
toLowerCaseChar(c) ==
    CASE c = "A" -> "a"
      [] c = "B" -> "b"
      [] c = "C" -> "c"
      [] OTHER -> c

toLowerCase(str) == [i \in DOMAIN str |-> toLowerCaseChar(str[i])]

includes(str, searchString) ==
    \E k \in 0..(Len(str) - Len(searchString)) :
        SubSeq(str, k + 1, k + Len(searchString)) = searchString

\* the ids of the invoices and of the payments in the table
RowIds == {1, 2}

\* created_at of the transactions held: the last instant of day 0, the first of day 1
CreatedAts == {EndOfDay(0), StartOfDay(1)}

ViewInvoices ==
    [id : RowIds, direction : {"incoming"}, status : {"pending", "paid"},
     memo : {<<>>, <<"A", "b">>}, payment_hash : {<<"c">>}, created_at : CreatedAts]

ViewPayments ==
    [id : RowIds, direction : {"outgoing"}, status : {"completed"},
     memo : {<<>>}, payment_hash : {<<"B", "a">>}, created_at : CreatedAts]

\* arrays of at most MaxRows entities with distinct ids, in any order
Collections(raw) ==
    {sq \in UNION {[1..n -> raw] : n \in 0..MaxRows} :
        \A i, j \in DOMAIN sq : i # j => sq[i].id # sq[j].id}

\* filters and searchDate the user can select; <<>> is null / the empty string
DirectionFilters == {"all", "incoming", "outgoing"}

StatusFilters == {"all", "paid"}

SearchTexts == {<<>>, <<"a">>}

SearchDates == [from : {<<>>, <<EndOfDay(1)>>}, to : {<<>>, <<StartOfDay(0)>>}]

viewInitial ==
    [invoices |-> <<>>,
     payments |-> <<>>,
     combinedTransactions |-> <<>>,
     filteredTransactions |-> <<>>,
     filters |-> [direction |-> "all", status |-> "all", searchText |-> <<>>],
     searchDate |-> [from |-> <<>>, to |-> <<>>],
     pagination |-> [page |-> 1, rowsPerPage |-> RowsPerPage]]

\* Array.prototype.sort with (a, b) => new Date(b.created_at) - new Date(a.created_at):
\* descending created_at, equal keys keep their input order
insertByDate(sorted, tx) ==
    LET before == {i \in DOMAIN sorted : sorted[i].created_at >= tx.created_at}
    IN  SubSeq(sorted, 1, Cardinality(before))
            \o <<tx>> \o SubSeq(sorted, Cardinality(before) + 1, Len(sorted))

RECURSIVE sortByDate(_)
sortByDate(txs) ==
    IF txs = <<>> THEN <<>>
    ELSE insertByDate(sortByDate(SubSeq(txs, 1, Len(txs) - 1)), txs[Len(txs)])

matchesDirection(v, tx) == tx.direction = v.filters.direction

matchesStatus(v, tx) == tx.status = v.filters.status

\* variant: the search text is looked for in the memo only
matchesMemoOnly(v, tx) ==
    tx.memo # <<>> /\ includes(toLowerCase(tx.memo), toLowerCase(v.filters.searchText))

matchesSearchText(v, tx) ==
    LET searchLower == toLowerCase(v.filters.searchText)
    IN  \/ tx.memo # <<>> /\ includes(toLowerCase(tx.memo), searchLower)
        \/ tx.payment_hash # <<>> /\ includes(toLowerCase(tx.payment_hash), searchLower)

matchesDateRange(v, tx) ==
    LET afterFrom == \/ v.searchDate.from = <<>>
                     \/ ~(tx.created_at < setHoursStart(v.searchDate.from[1]))
    IN  /\ afterFrom
        /\ \/ v.searchDate.to = <<>>
           \/ ~(tx.created_at > setHoursEnd(v.searchDate.to[1]))

\* the four filters of applyFilters, applied in turn
filtered(v) ==
    LET byDirection == IF v.filters.direction # "all"
                       THEN SelectSeq(v.combinedTransactions,
                                      LAMBDA tx : matchesDirection(v, tx))
                       ELSE v.combinedTransactions
        byStatus == IF v.filters.status # "all"
                    THEN SelectSeq(byDirection, LAMBDA tx : matchesStatus(v, tx))
                    ELSE byDirection
        byText == IF v.filters.searchText # <<>>
                  THEN SelectSeq(byStatus, LAMBDA tx : matchesSearchText(v, tx))
                  ELSE byStatus
    IN  IF v.searchDate.from # <<>> \/ v.searchDate.to # <<>>
        THEN SelectSeq(byText, LAMBDA tx : matchesDateRange(v, tx))
        ELSE byText

\* variant: applyFilters leaves the page index alone
keepPage(pagination, result) == pagination.page

\* the page applyFilters leaves: back to the first page, and again to the
\* first page if the start offset lies beyond the result
resetPage(pagination, result) ==
    LET first == IF pagination.page > 1 THEN 1 ELSE pagination.page
    IN  IF Len(result) > 0 /\ (first - 1) * pagination.rowsPerPage >= Len(result)
        THEN 1
        ELSE first

applyFilters(v) ==
    [v EXCEPT !.filteredTransactions = filtered(v),
              !.pagination.page = resetPage(v.pagination, filtered(v))]

combineTransactions(v) ==
    applyFilters([v EXCEPT !.combinedTransactions = sortByDate(v.invoices \o v.payments)])

searchByDate(v) == applyFilters(v)

clearDateSearch(v) == applyFilters([v EXCEPT !.searchDate = [from |-> <<>>, to |-> <<>>]])

resetFilters(v) ==
    applyFilters([v EXCEPT !.searchDate = [from |-> <<>>, to |-> <<>>],
                           !.filters = [direction |-> "all", status |-> "all",
                                        searchText |-> <<>>]])

\* computed paginatedItems
paginatedItems(v) ==
    LET startIndex == (v.pagination.page - 1) * v.pagination.rowsPerPage
    IN  SubSeq(v.filteredTransactions, startIndex + 1,
               IF startIndex + v.pagination.rowsPerPage < Len(v.filteredTransactions)
               THEN startIndex + v.pagination.rowsPerPage
               ELSE Len(v.filteredTransactions))

-----------------------------------------------------------------------------
(* Payments: the payment dialog of the component and PaymentService *)

Balances == 0..MaxBalance

\* asset_amount of a payment response
Amounts == 1..(MaxBalance + 1)

\* paymentDialog.selectedAsset: null
NoAsset == [asset_id |-> "none", user_balance |-> 0]

\* the asset listed, with the user_balance the component holds for it
ListedAsset(balance) == [asset_id |-> "a", user_balance |-> balance]

\* form.paymentRequest: empty, an invoice that decodes, text that does not
PaymentRequests == {"", "lnbc", "garbage"}

\* response.data of a successful pay / internal-payment request
PaymentResponses == [asset_id : {"a"}, asset_amount : Amounts]

\* assets: the user_balance of the asset in this.assets; store: the one in
\* taprootStore.state.assets
payInitial ==
    [assets |-> 0,
     store |-> 0,
     paymentDialog |-> [show |-> FALSE,
                        selectedAsset |-> NoAsset,
                        paymentRequest |-> "",
                        inProgress |-> FALSE,
                        invoiceDecodeError |-> FALSE],
     successDialog |-> [show |-> FALSE],
     pending |-> <<>>]

Max(a, b) == IF a >= b THEN a ELSE b

\* taprootStore.actions.updateAsset(assetId, {user_balance}): the store's
\* entry of the asset takes the balance given
updateAsset(store, balance) == balance

\* PaymentService.payInvoice after a response with data: the balance stored
\* for the asset becomes that of assetData less the amount paid, at least 0
PaymentService_payInvoice(store, assetData, response) ==
    LET newBalance == assetData.user_balance - response.asset_amount
    IN  updateAsset(store, Max(0, newBalance))

\* PaymentService.processInternalPayment after a response with data: the asset
\* is looked up in the store
PaymentService_processInternalPayment(store, response) ==
    LET newBalance == store - response.asset_amount
    IN  updateAsset(store, Max(0, newBalance))

resetPaymentForm(p) ==
    [p EXCEPT !.paymentDialog.paymentRequest = "",
              !.paymentDialog.inProgress = FALSE,
              !.paymentDialog.invoiceDecodeError = FALSE]

openPaymentDialog(p, asset) ==
    IF asset.user_balance <= 0
    THEN p
    ELSE [resetPaymentForm(p) EXCEPT !.paymentDialog.selectedAsset = asset,
                                     !.paymentDialog.show = TRUE]

closePaymentDialog(p) == resetPaymentForm([p EXCEPT !.paymentDialog.show = FALSE])

\* v-model of the invoice field and the watcher's parseInvoice
parseInvoice(p, paymentRequest) ==
    [p EXCEPT !.paymentDialog.paymentRequest = paymentRequest,
              !.paymentDialog.invoiceDecodeError = (paymentRequest = "garbage")]

\* submitPaymentForm up to its await: the request is in flight
submitPaymentForm(p) ==
    IF \/ p.paymentDialog.inProgress
       \/ p.paymentDialog.paymentRequest = ""
       \/ p.paymentDialog.invoiceDecodeError
    THEN p
    ELSE [p EXCEPT !.paymentDialog.inProgress = TRUE,
                   !.pending = Append(@, [kind |-> "pay",
                                          assetData |-> p.paymentDialog.selectedAsset])]

Without(requests, i) == SubSeq(requests, 1, i - 1) \o SubSeq(requests, i + 1, Len(requests))

\* the pay request i is answered with data: PaymentService.payInvoice updates
\* the store, submitPaymentForm goes on after its await
payInvoiceResolves(p, i, response) ==
    [p EXCEPT !.store = PaymentService_payInvoice(p.store, p.pending[i].assetData, response),
              !.pending = Without(@, i),
              !.paymentDialog.show = FALSE,
              !.successDialog.show = TRUE,
              !.paymentDialog.inProgress = FALSE]

\* the pay request i is rejected as an internal payment: the component's
\* processInternalPayment sends the internal-payment request
payInvoiceRejectsAsInternal(p, i) ==
    [p EXCEPT !.pending = Append(Without(@, i), [kind |-> "internal", assetData |-> NoAsset]),
              !.paymentDialog.inProgress = TRUE]

\* the pay request i is rejected otherwise; a channel that is offline closes the dialog
payInvoiceRejects(p, i, channelOffline) ==
    [p EXCEPT !.pending = Without(@, i),
              !.paymentDialog.show = IF channelOffline THEN FALSE ELSE @,
              !.paymentDialog.inProgress = FALSE]

\* the internal-payment request i is answered with data
internalPaymentResolves(p, i, response) ==
    [p EXCEPT !.store = PaymentService_processInternalPayment(p.store, response),
              !.pending = Without(@, i),
              !.paymentDialog.show = FALSE,
              !.successDialog.show = TRUE,
              !.paymentDialog.inProgress = FALSE]

internalPaymentRejects(p, i) ==
    [p EXCEPT !.pending = Without(@, i),
              !.paymentDialog.inProgress = FALSE]

\* AssetService.getAssets resolves: the component and the store take the snapshot
assetsFetched(p, balance) == [p EXCEPT !.assets = balance, !.store = balance]

-----------------------------------------------------------------------------
(* Invoice dialog of the component: open, reset, close, submit *)

\* invoiceDialog.form.amount as the user can set it
FormAmounts == {1, 2}

\* the assets an invoice can be created for, inactive channels among them
FormAssets == [asset_id : {"a", "b"}, active : BOOLEAN]

NoFormAsset == [asset_id |-> "none", active |-> FALSE]

NoCreatedInvoice == [asset_id |-> "none", amount |-> 0]

\* data(); of the form the amount is kept; pending: the createInvoice requests
\* that have not settled, each with the asset and the amount it was sent with
formInitial ==
    [invoiceDialog |-> [show |-> FALSE, selectedAsset |-> NoFormAsset,
                        form |-> [amount |-> 1]],
     isSubmitting |-> FALSE,
     createdInvoice |-> NoCreatedInvoice,
     createdInvoiceDialog |-> [show |-> FALSE],
     pending |-> <<>>]

resetInvoiceForm(f) ==
    [f EXCEPT !.invoiceDialog.form = [amount |-> 1],
              !.isSubmitting = FALSE,
              !.createdInvoice = NoCreatedInvoice]

openInvoiceDialog(f, asset) ==
    IF ~asset.active THEN f
    ELSE [resetInvoiceForm(f) EXCEPT !.invoiceDialog.selectedAsset = asset,
                                     !.invoiceDialog.show = TRUE]

closeInvoiceDialog(f) == resetInvoiceForm([f EXCEPT !.invoiceDialog.show = FALSE])

\* submitInvoiceForm() up to its await
submitInvoiceFormStarts(f) ==
    IF f.isSubmitting THEN f
    ELSE [f EXCEPT !.isSubmitting = TRUE,
                   !.pending = Append(@, [asset_id |-> f.invoiceDialog.selectedAsset.asset_id,
                                          amount |-> f.invoiceDialog.form.amount])]

\* submitInvoiceForm() from its await on: request i resolves
createInvoiceResolves(f, i) ==
    [f EXCEPT !.createdInvoice = f.pending[i],
              !.invoiceDialog.show = FALSE,
              !.createdInvoiceDialog.show = TRUE,
              !.isSubmitting = FALSE,
              !.pending = Without(@, i)]

\* request i rejects; channelOffline: the error message names the channel as
\* offline or unavailable
createInvoiceRejects(f, i, channelOffline) ==
    LET a == IF channelOffline THEN closeInvoiceDialog(f) ELSE f
    IN  [a EXCEPT !.isSubmitting = FALSE, !.pending = Without(@, i)]

-----------------------------------------------------------------------------
(* Mapping a transaction for display: records and the objects they refer to *)

\* asset_amount and fee_sats; 0 stands for a property that is not there
AssetAmounts == {0, 1, 2}

\* asset_id; "" stands for a property that is not there
AssetIds == {"", "a"}

\* transaction.extra: undefined
NoExtra == [defined |-> FALSE, asset_amount |-> 0, asset_id |-> "", fee_sats |-> 0]

\* {}
EmptyExtra == [defined |-> TRUE, asset_amount |-> 0, asset_id |-> "", fee_sats |-> 0]

\* the objects transaction.extra can refer to
ExtraObjects ==
    [defined : {TRUE}, asset_amount : AssetAmounts, asset_id : AssetIds, fee_sats : {0}]

\* the own properties of a transaction; extra is kept apart, in objects.extra
Transactions ==
    [payment_hash : {"", "abc"}, asset_amount : AssetAmounts, asset_id : AssetIds,
     fee_sats : {0}]

NotMapped == [type |-> "", direction |-> "", sharesExtra |-> FALSE, extra |-> NoExtra]

objectsInitial ==
    [transaction |-> [payment_hash |-> "", asset_amount |-> 0, asset_id |-> "",
                      fee_sats |-> 0],
     extra |-> NoExtra,
     mapped |-> NotMapped]

\* mapped = {...transaction}; mapped.extra = mapped.extra || {}: the copy refers
\* to the object the transaction refers to, if there is one; the assignments
\* to mapped.extra.asset_amount and mapped.extra.asset_id write to that object
ensureExtra(o, type) ==
    LET shared == o.extra.defined
        before == IF shared THEN o.extra ELSE EmptyExtra
        after == [before EXCEPT
                     !.asset_amount = IF @ = 0 /\ o.transaction.asset_amount # 0
                                      THEN o.transaction.asset_amount ELSE @,
                     !.asset_id = IF @ = "" /\ o.transaction.asset_id # ""
                                  THEN o.transaction.asset_id ELSE @]
    IN  [o EXCEPT !.extra = IF shared THEN after ELSE @,
                  !.mapped = [type |-> type,
                              direction |-> IF type = "invoice" THEN "incoming"
                                                                ELSE "outgoing",
                              sharesExtra |-> shared,
                              extra |-> after]]

\* mapped.extra = {asset_amount, asset_id, fee_sats}: a new object
replaceExtra(o, type) ==
    [o EXCEPT !.mapped = [type |-> type,
                          direction |-> IF type = "invoice" THEN "incoming"
                                                            ELSE "outgoing",
                          sharesExtra |-> FALSE,
                          extra |-> [defined |-> TRUE,
                                     asset_amount |-> o.transaction.asset_amount,
                                     asset_id |-> o.transaction.asset_id,
                                     fee_sats |-> o.transaction.fee_sats]]]

\* InvoiceService._mapInvoice on the objects
InvoiceService_mapInvoice(o) == ensureExtra(o, "invoice")

\* PaymentService._mapPayment on the objects
PaymentService_mapPayment(o) == replaceExtra(o, "payment")

\* mapTransaction(transaction, type) on the objects; type "" is undefined
mapTransactionObjects(o, type) ==
    LET mappedType == IF type # "" THEN type
                      ELSE IF o.transaction.payment_hash # "" THEN "invoice"
                      ELSE "payment"
    IN  IF mappedType = "invoice"
        THEN ensureExtra(o, mappedType)
        ELSE replaceExtra(o, mappedType)

-----------------------------------------------------------------------------
(* WebSocketManager *)

Topics == {"invoices", "payments", "balances"}

\* readyState of the socket connections[topic] refers to ("null": no socket)
ConnPhases == {"null", "connecting", "open"}

\* a detached socket: still connecting, open, or close()d by the manager;
\* a socket close()d while connecting fails (error, then close), one close()d
\* while open delivers its close event only
DetPhases == {"connecting", "open", "closingE", "closingC"}

DetTotal(s, t) ==
    s.det[t]["connecting"] + s.det[t]["open"] + s.det[t]["closingE"] + s.det[t]["closingC"]

WithinBounds(s) ==
    /\ \A t \in Topics : DetTotal(s, t) <= MaxDetached
    /\ s.leakedTimers <= MaxLeaked
    /\ s.leakedIntervals <= MaxLeaked

AllNull(s) == \A t \in Topics : s.conn[t] = "null"

\* A handler below that reads an intermediate state more than once names it
\* through a singleton set, {e(x) : x \in {v}}, so that v is computed once.

\* connections[t].close(); connections[t] = null
closeSocket(s, t) ==
    CHOOSE after \in
        {IF a.conn[t] = "null" THEN a
         ELSE [a EXCEPT !.det[t][IF a.conn[t] = "connecting" THEN "closingE"
                                 ELSE "closingC"] = @ + 1,
                        !.conn[t] = "null"] :
            a \in {s}} : TRUE

\* connections[t] = null while the socket it referred to is still alive
dropReference(s, t) ==
    CHOOSE after \in
        {IF a.conn[t] = "null" THEN a
         ELSE [a EXCEPT !.det[t][a.conn[t]] = @ + 1, !.conn[t] = "null"] :
            a \in {s}} : TRUE

\* taprootStore.actions.setWebsocketStatus(upd): merge of the given fields
\* (connected, reconnecting, fallbackPolling; the attempts count it displays
\* is not kept)
setWebsocketStatus(s, upd) ==
    CHOOSE after \in
        {[a EXCEPT !.store = [f \in DOMAIN a.store |->
                                 IF f \in DOMAIN upd THEN upd[f] ELSE a.store[f]]] :
            a \in {s}} : TRUE

_scheduleReconnect(s) ==
    CHOOSE after \in
        {IF c.reconnectAttempts >= maxReconnectAttempts
         THEN setWebsocketStatus(c, [reconnecting |-> FALSE, fallbackPolling |-> TRUE])
         ELSE setWebsocketStatus(
                  [c EXCEPT !.reconnectAttempts = @ + 1, !.reconnectTimeout = TRUE],
                  [reconnecting |-> TRUE]) :
            c \in {[s EXCEPT !.reconnectTimeout = FALSE]}} : TRUE

\* state.pollingInterval = setInterval(...): an interval it referred to before
\* keeps running unreferenced
setPollingInterval(s) ==
    [s EXCEPT !.leakedIntervals = @ + (IF s.pollingInterval THEN 1 ELSE 0),
              !.pollingInterval = TRUE]

\* variant: starts an interval whether or not one is running
startPollingUnguarded(s) ==
    CHOOSE after \in
        {setWebsocketStatus(
             setPollingInterval([a EXCEPT !.fallbackPolling = TRUE]),
             [fallbackPolling |-> TRUE]) :
            a \in {s}} : TRUE

_startFallbackPolling(s) ==
    CHOOSE after \in
        {IF a.fallbackPolling \/ a.pollingInterval THEN a
         ELSE setWebsocketStatus(
                  setPollingInterval([a EXCEPT !.fallbackPolling = TRUE]),
                  [fallbackPolling |-> TRUE]) :
            a \in {s}} : TRUE

_stopFallbackPolling(s) ==
    setWebsocketStatus(
        [s EXCEPT !.pollingInterval = FALSE, !.fallbackPolling = FALSE],
        [fallbackPolling |-> FALSE])

\* variant: falls back as soon as the closed topic has no connection, without
\* looking at the other topics
closeWithoutCheckingOthers(s, t, own) ==
    CHOOSE after \in
        {_startFallbackPolling(_scheduleReconnect(setWebsocketStatus(
             [a EXCEPT !.connected = FALSE],
             [connected |-> FALSE, reconnecting |-> a.reconnectTimeout]))) :
            a \in {IF own THEN [s EXCEPT !.conn[t] = "null"]
                   ELSE dropReference(s, t)}} : TRUE

\* own: the close event is the one of the socket connections[t] refers to
_handleConnectionClose(s, t, own) ==
    CHOOSE after \in
        {IF AllNull(a)
         THEN _startFallbackPolling(_scheduleReconnect(setWebsocketStatus(
                  [a EXCEPT !.connected = FALSE],
                  [connected |-> FALSE, reconnecting |-> a.reconnectTimeout])))
         ELSE a :
            a \in {IF own THEN [s EXCEPT !.conn[t] = "null"]
                   ELSE dropReference(s, t)}} : TRUE

\* variant: an error clears the connection and does nothing else
errorWithoutFallback(s, t, own) ==
    IF own THEN [s EXCEPT !.conn[t] = "null"] ELSE closeSocket(s, t)

\* own: the error event is the one of the socket connections[t] refers to, whose
\* readyState is CLOSED by then; otherwise connections[t], if any, is close()d
_handleConnectionError(s, t, own) ==
    CHOOSE after \in
        {IF AllNull(a)
         THEN _startFallbackPolling(_scheduleReconnect(setWebsocketStatus(
                  [a EXCEPT !.connected = FALSE],
                  [connected |-> FALSE, reconnecting |-> TRUE])))
         ELSE a :
            a \in {IF own THEN [s EXCEPT !.conn[t] = "null"]
                   ELSE closeSocket(s, t)}} : TRUE

\* throws: new WebSocket(wsUrl) throws
connectTopic(s, t, throws) ==
    CHOOSE after \in
        {IF ~a.userId THEN a
         ELSE IF throws THEN _handleConnectionError(a, t, FALSE)
         ELSE [dropReference(a, t) EXCEPT !.conn[t] = "connecting"] :
            a \in {s}} : TRUE

_connectInvoices(s, throws) == connectTopic(s, "invoices", throws)

_connectPayments(s, throws) == connectTopic(s, "payments", throws)

_connectBalances(s, throws) == connectTopic(s, "balances", throws)

closeAll(s) ==
    LET a == closeSocket(closeSocket(closeSocket(s, "invoices"), "payments"), "balances")
        b == [a EXCEPT !.reconnectTimeout = FALSE]
        c == _stopFallbackPolling(b)
    IN  setWebsocketStatus(
            [c EXCEPT !.connected = FALSE],
            [connected |-> FALSE, reconnecting |-> FALSE, fallbackPolling |-> FALSE])

\* throwing: the topics whose socket constructor throws
connect(s, throwing) ==
    LET a == [closeAll(s) EXCEPT !.reconnectAttempts = 0]
        b == _connectInvoices(a, "invoices" \in throwing)
        c == _connectPayments(b, "payments" \in throwing)
        d == _connectBalances(c, "balances" \in throwing)
    IN  setWebsocketStatus(
            [d EXCEPT !.connected = TRUE],
            [connected |-> TRUE, reconnecting |-> FALSE, fallbackPolling |-> FALSE])

\* initialize(userId, {onPollingRequired}) with a user id
initialize(s, throwing) ==
    connect([s EXCEPT !.userId = TRUE, !.onPollingRequired = TRUE], throwing)

\* variant: clears the handlers and the user id without closeAll()
destroyWithoutClosing(s) ==
    [s EXCEPT !.onPollingRequired = FALSE, !.userId = FALSE,
              !.reconnectAttempts = 0]

destroy(s) ==
    [closeAll(s) EXCEPT !.onPollingRequired = FALSE, !.userId = FALSE,
                        !.reconnectAttempts = 0]

\* the setTimeout callback of _scheduleReconnect: connect(), then
\* state.reconnectTimeout = null, whatever connect() stored there
reconnectCallback(s, throwing) ==
    CHOOSE after \in
        {[a EXCEPT !.leakedTimers = @ + (IF a.reconnectTimeout THEN 1 ELSE 0),
                   !.reconnectTimeout = FALSE] :
            a \in {connect(s, throwing)}} : TRUE

\* the WebSocketManager object literal
mgrInitial ==
    [conn |-> [t \in Topics |-> "null"],
     det |-> [t \in Topics |-> [p \in DetPhases |-> 0]],
     connected |-> FALSE,
     reconnectAttempts |-> 0,
     reconnectTimeout |-> FALSE,
     leakedTimers |-> 0,
     leakedIntervals |-> 0,
     fallbackPolling |-> FALSE,
     pollingInterval |-> FALSE,
     userId |-> FALSE,
     onPollingRequired |-> FALSE,
     store |-> [connected |-> FALSE, reconnecting |-> FALSE,
                fallbackPolling |-> FALSE]]

Step(n, auto) ==
    /\ \E after \in {n} : WithinBounds(after) /\ mgr' = after
    /\ polled' = FALSE
    /\ autoReconnects' = (IF counting THEN auto ELSE 0)
    /\ UNCHANGED <<counting, ctorThrows>>
    /\ UNCHANGED appVars

\* the three URLs differ in the topic name only: the constructor throws for
\* every topic or for none
Thrown == IF ctorThrows THEN Topics ELSE {}

Initialize ==
    /\ Step(initialize(mgr, Thrown), 0)

Connect ==
    /\ mgr.userId
    /\ Step(connect(mgr, Thrown), 0)

Destroy ==
    /\ Step(destroy(mgr), 0)

ReconnectTimerFires ==
    /\ mgr.reconnectTimeout
    /\ Step(reconnectCallback(mgr, Thrown),
               IF autoReconnects < maxReconnectAttempts THEN autoReconnects + 1
               ELSE autoReconnects)

LeakedTimerFires ==
    /\ mgr.leakedTimers > 0
    /\ Step(reconnectCallback([mgr EXCEPT !.leakedTimers = @ - 1], Thrown),
               IF autoReconnects < maxReconnectAttempts THEN autoReconnects + 1
               ELSE autoReconnects)

PollingIntervalFires ==
    /\ mgr.pollingInterval \/ mgr.leakedIntervals > 0
    /\ mgr' = mgr
    /\ polled' = mgr.onPollingRequired
    /\ UNCHANGED <<autoReconnects, counting, ctorThrows>>
    /\ UNCHANGED appVars

\* the socket connections[t] refers to opens (the manager sets no onopen handler)
SocketOpens(t) ==
    /\ mgr.conn[t] = "connecting"
    /\ Step([mgr EXCEPT !.conn[t] = "open"], 0)

\* the open socket connections[t] refers to is closed by the peer
SocketCloses(t) ==
    /\ mgr.conn[t] = "open"
    /\ Step(_handleConnectionClose(mgr, t, TRUE), autoReconnects)

\* the socket connections[t] refers to fails: error event, then close event
SocketFails(t) ==
    /\ mgr.conn[t] # "null"
    /\ Step(_handleConnectionClose(_handleConnectionError(mgr, t, TRUE), t, FALSE),
            autoReconnects)

DetachedOpens(t) ==
    /\ mgr.det[t]["connecting"] > 0
    /\ Step([mgr EXCEPT !.det[t]["connecting"] = @ - 1, !.det[t]["open"] = @ + 1], 0)

\* a detached socket delivers its close event
DetachedCloses(t) ==
    \E p \in {"open", "closingC"} :
        /\ mgr.det[t][p] > 0
        /\ Step(_handleConnectionClose([mgr EXCEPT !.det[t][p] = @ - 1], t, FALSE),
                autoReconnects)

\* a detached socket fails: error event, then close event
DetachedFails(t) ==
    \E p \in {"connecting", "open", "closingE"} :
        /\ mgr.det[t][p] > 0
        /\ Step(_handleConnectionClose(
                    _handleConnectionError([mgr EXCEPT !.det[t][p] = @ - 1], t, FALSE),
                    t, FALSE),
                autoReconnects)

SocketOpen == \E t \in Topics : SocketOpens(t)

SocketClose == \E t \in Topics : SocketCloses(t)

SocketFail == \E t \in Topics : SocketFails(t)

DetachedOpen == \E t \in Topics : DetachedOpens(t)

DetachedClose == \E t \in Topics : DetachedCloses(t)

DetachedFail == \E t \in Topics : DetachedFails(t)

NextMgr ==
    \/ Initialize
    \/ Connect
    \/ Destroy
    \/ ReconnectTimerFires
    \/ LeakedTimerFires
    \/ PollingIntervalFires
    \/ SocketOpen
    \/ SocketClose
    \/ SocketFail
    \/ DetachedOpen
    \/ DetachedClose
    \/ DetachedFail

\* the scenario variables when no snapshot is under observation
noDiff == [by |-> "none", hasChanges |-> FALSE, transitions |-> <<>>]

InitMgr ==
    /\ mgr = mgrInitial
    /\ polled = FALSE
    /\ autoReconnects = 0
    /\ counting = FALSE
    /\ ctorThrows \in BOOLEAN
    /\ app = appInitial
    /\ incoming = <<>>
    /\ applied = 0
    /\ diff = noDiff
    /\ watched = 0
    /\ delivered = {}
    /\ page = pageInitial
    /\ view = viewInitial
    /\ pay = payInitial
    /\ objects = objectsInitial
    /\ server = serverInitial
    /\ sockets = socketsInitial
    /\ form = formInitial

SpecMgr == InitMgr /\ [][NextMgr]_vars

\* the same manager, with the reconnect attempts of a behaviour counted
InitMgrCount ==
    /\ mgr = mgrInitial
    /\ polled = FALSE
    /\ autoReconnects = 0
    /\ counting = TRUE
    /\ ctorThrows \in BOOLEAN
    /\ app = appInitial
    /\ incoming = <<>>
    /\ applied = 0
    /\ diff = noDiff
    /\ watched = 0
    /\ delivered = {}
    /\ page = pageInitial
    /\ view = viewInitial
    /\ pay = payInitial
    /\ objects = objectsInitial
    /\ server = serverInitial
    /\ sockets = socketsInitial
    /\ form = formInitial

SpecMgrCount == InitMgrCount /\ [][NextMgr]_vars

\* a connection attempt ends: the socket opens or fails
AttemptEnds(t) ==
    /\ mgr.conn[t] = "connecting"
    /\ SocketOpens(t) \/ SocketFails(t)

\* timers that stay pending fire; every connection attempt ends
FairMgr ==
    /\ WF_vars(ReconnectTimerFires)
    /\ WF_vars(LeakedTimerFires)
    /\ WF_vars(PollingIntervalFires)
    /\ \A t \in Topics : WF_vars(AttemptEnds(t))

SpecMgrFair == InitMgrCount /\ [][NextMgr]_vars /\ FairMgr

-----------------------------------------------------------------------------
(* The app receiving poll responses and push messages *)

WithinAppBounds(a) ==
    \/ Len(a.invoices) <= MaxMixed
    \/ Len(a.payments) <= MaxMixed

GetInvoicesResponds ==
    \E isInitialLoad \in BOOLEAN, response \in Responses(RawInvoices) :
        /\ app' = getInvoices(app, isInitialLoad, response)
        /\ WithinAppBounds(app')
        /\ UNCHANGED <<mgrVars, page, view, pay, objects, server, sockets, form, incoming, applied, diff, watched, delivered>>

GetPaymentsResponds ==
    \E response \in Responses(RawPayments) :
        /\ app' = getPayments(app, response)
        /\ WithinAppBounds(app')
        /\ UNCHANGED <<mgrVars, page, view, pay, objects, server, sockets, form, incoming, applied, diff, watched, delivered>>

InvoiceMessageArrives ==
    \E data \in Messages(RawInvoices) :
        /\ app' = handleInvoiceWebSocketMessage(app, data)
        /\ WithinAppBounds(app')
        /\ UNCHANGED <<mgrVars, page, view, pay, objects, server, sockets, form, incoming, applied, diff, watched, delivered>>

PaymentMessageArrives ==
    \E data \in Messages(RawPayments) :
        /\ app' = handlePaymentWebSocketMessage(app, data)
        /\ WithinAppBounds(app')
        /\ UNCHANGED <<mgrVars, page, view, pay, objects, server, sockets, form, incoming, applied, diff, watched, delivered>>

NextApp ==
    \/ GetInvoicesResponds
    \/ GetPaymentsResponds
    \/ InvoiceMessageArrives
    \/ PaymentMessageArrives

InitApp ==
    /\ mgr = mgrInitial
    /\ polled = FALSE
    /\ autoReconnects = 0
    /\ counting = FALSE
    /\ ctorThrows = FALSE
    /\ app = appInitial
    /\ incoming = <<>>
    /\ applied = 0
    /\ diff = noDiff
    /\ watched = 0
    /\ delivered = {}
    /\ page = pageInitial
    /\ view = viewInitial
    /\ pay = payInitial
    /\ objects = objectsInitial
    /\ server = serverInitial
    /\ sockets = socketsInitial
    /\ form = formInitial

SpecApp == InitApp /\ [][NextApp]_vars

-----------------------------------------------------------------------------
(* One invoice snapshot under observation: diffed, applied by getInvoices,  *)
(* and the payment it reports delivered by a push message as well           *)

isMarked(item) == "_isNew" \in DOMAIN item \/ "_statusChanged" \in DOMAIN item

\* the transition a mark of the diff stands for
Transition(item) ==
    IF "_isNew" \in DOMAIN item
    THEN [kind |-> "New", id |-> item.id,
          previousStatus |-> "none", newStatus |-> item.status]
    ELSE [kind |-> "StatusChanged", id |-> item.id,
          previousStatus |-> item._previousStatus, newStatus |-> item.status]

Transitions(items) ==
    LET marked == SelectSeq(items, isMarked)
    IN  [i \in DOMAIN marked |-> Transition(marked[i])]

\* the invoices that are not paid locally and paid in the snapshot
PaidChanges(local, snapshot) ==
    {snapshot[i].id : i \in {i \in DOMAIN snapshot :
        /\ snapshot[i].status = "paid"
        /\ \E j \in DOMAIN local :
               local[j].id = snapshot[i].id /\ local[j].status # "paid"}}

FindChanges ==
    /\ diff' =
           LET found == findChanges(processedInvoices(ArrayResponse(incoming)),
                                    app.invoices)
           IN  [by |-> "findChanges",
                hasChanges |-> Len(found.new) + Len(found.updated) > 0,
                transitions |-> Transitions(found.new \o found.updated)]
    /\ UNCHANGED <<mgrVars, page, view, pay, objects, server, sockets, form, app, incoming, applied, watched, delivered>>

CheckForChanges ==
    /\ diff' =
           LET checked == checkForChanges(processedInvoices(ArrayResponse(incoming)),
                                          app.invoices)
           IN  [by |-> "checkForChanges",
                hasChanges |-> checked.hasChanges,
                transitions |-> Transitions(checked.newItems)]
    /\ UNCHANGED <<mgrVars, page, view, pay, objects, server, sockets, form, app, incoming, applied, watched, delivered>>

\* getInvoices receives the snapshot; diff records what its checkForChanges
\* reported, if it ran
ApplySnapshot ==
    \E isInitialLoad \in BOOLEAN :
        /\ applied < MaxApplications
        /\ app' = getInvoices(app, isInitialLoad, ArrayResponse(incoming))
        /\ applied' = applied + 1
        /\ delivered' = delivered \cup {"poll"}
        /\ diff' =
               IF Len(app.invoices) = 0 \/ isInitialLoad
               THEN [by |-> "getInvoices", hasChanges |-> FALSE, transitions |-> <<>>]
               ELSE LET checked ==
                            checkForChanges(processedInvoices(ArrayResponse(incoming)),
                                            app.invoices)
                    IN  [by |-> "getInvoices",
                         hasChanges |-> checked.hasChanges,
                         transitions |-> Transitions(checked.newItems)]
        /\ UNCHANGED <<mgrVars, page, view, pay, objects, server, sockets, form, incoming, watched>>

\* the push message that reports the watched invoice as the snapshot has it
PushDelivers ==
    /\ watched # 0
    /\ "push" \notin delivered
    /\ \E i \in DOMAIN incoming :
           /\ incoming[i].id = watched
           /\ app' = handleInvoiceWebSocketMessage(
                         app, [type |-> "invoice_update", data |-> incoming[i]])
    /\ delivered' = delivered \cup {"push"}
    /\ diff' = noDiff
    /\ UNCHANGED <<mgrVars, page, view, pay, objects, server, sockets, form, incoming, applied, watched>>

NextSnapshot ==
    \/ FindChanges
    \/ CheckForChanges
    \/ ApplySnapshot
    \/ PushDelivers

\* the local collection is the result of an initial load
InitSnapshot ==
    /\ mgr = mgrInitial
    /\ polled = FALSE
    /\ autoReconnects = 0
    /\ counting = FALSE
    /\ ctorThrows = FALSE
    /\ \E sq \in Snapshots(RawInvoices) :
           app = getInvoices(appInitial, TRUE, ArrayResponse(sq))
    /\ incoming \in Snapshots(RawInvoices)
    /\ applied = 0
    /\ diff = noDiff
    /\ watched \in IF PaidChanges(app.invoices, incoming) = {} THEN {0}
                   ELSE PaidChanges(app.invoices, incoming)
    /\ delivered = {}
    /\ page = pageInitial
    /\ view = viewInitial
    /\ pay = payInitial
    /\ objects = objectsInitial
    /\ server = serverInitial
    /\ sockets = socketsInitial
    /\ form = formInitial

SpecSnapshot == InitSnapshot /\ [][NextSnapshot]_vars

-----------------------------------------------------------------------------
(* Claims about the WebSocketManager *)

SomeOpen == \E t \in Topics : mgr.conn[t] = "open" \/ mgr.det[t]["open"] > 0

ReconnectTimerPending == mgr.reconnectTimeout \/ mgr.leakedTimers > 0

\* C6: after maxReconnectAttempts consecutive failed connection attempts (here:
\* reconnect attempts made by the timer, the last of which has failed too),
\* fallbackPolling is true and no further reconnect timer is scheduled.
C6_NoReconnectBeyondMaxAttempts ==
    (/\ autoReconnects >= maxReconnectAttempts
     /\ ~ctorThrows
     /\ mgr.userId
     /\ AllNull(mgr))
        => (mgr.fallbackPolling /\ ~ReconnectTimerPending)

\* C7: after teardown (destroy(): no user id is set) no reconnect timer and no
\* polling timer is pending, also once the close events of the sockets closed
\* during teardown have been delivered.
C7_NoTimerAfterTeardown ==
    (~mgr.userId /\ ~ctorThrows) => (~ReconnectTimerPending /\ ~mgr.pollingInterval)

\* C8: while the manager is in use and no push connection is open, the poll-now
\* callback keeps being invoked, also while the reconnect attempts made by the
\* timer keep failing: the manager never stays forever in use, with every
\* connection down, maxReconnectAttempts timer reconnects behind it and no poll.
C8_PollsWhileDown ==
    []<>(\/ ~mgr.userId
         \/ SomeOpen
         \/ polled
         \/ autoReconnects < maxReconnectAttempts)

CloseOrErrorEvent ==
    \E t \in Topics :
        SocketCloses(t) \/ SocketFails(t) \/ DetachedCloses(t) \/ DetachedFails(t)

C10_ConnectedOnlyOnceOpen ==
    (mgr.userId /\ ~ctorThrows /\ mgr.connected) => SomeOpen

-----------------------------------------------------------------------------
(* Claims about the collections and the diff *)

UniqueIds(items) ==
    \A i, j \in DOMAIN items : items[i].id = items[j].id => i = j

\* the watched invoice is the only one the snapshot reports as paid
OnlyWatchedPaid ==
    \A i \in DOMAIN incoming : incoming[i].status = "paid" => incoming[i].id = watched

\* C1: once the payment of the watched invoice has been delivered both by a
\* push message and by a poll response, in either order, exactly one "invoice
\* paid" notification has been shown and exactly one asset refresh scheduled.
C1_OneEffectForPushAndPoll ==
    (watched # 0 /\ OnlyWatchedPaid /\ delivered = {"push", "poll"})
        => (app.notifications = 1 /\ app.assetRefreshes = 1)

\* C2: whatever poll responses and push messages have been handled, no two
\* entries of invoices share an id and no two entries of payments share an id.
C2_OneEntryPerIdentity ==
    UniqueIds(app.invoices) /\ UniqueIds(app.payments)

\* a push message has updated a known invoice of a collection holding every id
C2_Witness ==
    /\ Len(app.invoices) = MaxId
    /\ \E i \in DOMAIN app.invoices :
           /\ "_statusChanged" \in DOMAIN app.invoices[i]
           /\ "_previousStatus" \notin DOMAIN app.invoices[i]
           /\ "_isNew" \notin DOMAIN app.invoices[i]

\* an invoice_update with status paid for a known invoice that is not paid
PaidUpdateArrives ==
    \E i \in DOMAIN app.invoices :
        /\ app.invoices[i].status # "paid"
        /\ app' = handleInvoiceWebSocketMessage(
                      app, [type |-> "invoice_update",
                            data |-> [id |-> app.invoices[i].id, status |-> "paid"]])

\* C3: the update that turns a known, not yet paid invoice into a paid one
\* shows one "invoice paid" notification and schedules one asset refresh.
C3_PaidTransitionHasOneEffect ==
    [][PaidUpdateArrives =>
          /\ app'.notifications = app.notifications + 1
          /\ app'.assetRefreshes = app.assetRefreshes + 1]_vars

LocalIds == {app.invoices[i].id : i \in DOMAIN app.invoices}

LocalStatus(id) ==
    app.invoices[CHOOSE i \in DOMAIN app.invoices : app.invoices[i].id = id].status

\* what the diff of the snapshot against the local collection has to report
ExpectedTransitions ==
    {[kind |-> "New", id |-> incoming[i].id,
      previousStatus |-> "none", newStatus |-> incoming[i].status] :
        i \in {i \in DOMAIN incoming : incoming[i].id \notin LocalIds}}
    \cup
    {[kind |-> "StatusChanged", id |-> incoming[i].id,
      previousStatus |-> LocalStatus(incoming[i].id),
      newStatus |-> incoming[i].status] :
        i \in {i \in DOMAIN incoming :
                  /\ incoming[i].id \in LocalIds
                  /\ LocalStatus(incoming[i].id) # incoming[i].status}}

\* C4: a diff of the snapshot against the local collection (findChanges or
\* checkForChanges) reports one New for each snapshot invoice whose id is not
\* held locally, one StatusChanged with the local and the snapshot status for
\* each one held with another status, and nothing else.
C4_DiffReportsExactlyTheChanges ==
    diff.by \in {"findChanges", "checkForChanges"}
        => /\ {diff.transitions[i] : i \in DOMAIN diff.transitions} = ExpectedTransitions
           /\ Len(diff.transitions) = Cardinality(ExpectedTransitions)
           /\ diff.hasChanges = (ExpectedTransitions # {})

\* C5: once getInvoices has applied the snapshot, diffing the same snapshot
\* against the resulting collection reports no change and marks no item, and
\* the second application by getInvoices reports none either.
C5_SecondApplicationReportsNothing ==
    /\ applied >= 1 =>
           LET processed == processedInvoices(ArrayResponse(incoming))
               checked == checkForChanges(processed, app.invoices)
               found == findChanges(processed, app.invoices)
           IN  /\ ~checked.hasChanges
               /\ Transitions(checked.newItems) = <<>>
               /\ found.new = <<>>
               /\ found.updated = <<>>
    /\ (applied >= 2 /\ diff.by = "getInvoices") =>
           (~diff.hasChanges /\ diff.transitions = <<>>)

\* the snapshot has been applied twice by polls alone, and its first
\* application marked a change
C5_Witness ==
    /\ applied = 2
    /\ diff.by = "getInvoices"
    /\ delivered = {"poll"}
    /\ \E i \in DOMAIN app.invoices : isMarked(app.invoices[i])


-----------------------------------------------------------------------------
(* Teardown of the manager *)

-----------------------------------------------------------------------------
(* Polls of the app: what a snapshot removes *)

IdsOf(items) == {items[i].id : i \in DOMAIN items}

\* C12: a poll response that lists invoices (payments) removes no entity from
\* the local collection: every id held before the snapshot is applied is still
\* held afterwards.
C12_SnapshotKeepsAbsentEntities ==
    [][/\ (GetInvoicesResponds /\ \E isInitialLoad \in BOOLEAN, sq \in Snapshots(RawInvoices) :
                app' = getInvoices(app, isInitialLoad, ArrayResponse(sq)))
            => IdsOf(app.invoices) \subseteq IdsOf(app'.invoices)
       /\ (GetPaymentsResponds /\ \E sq \in Snapshots(RawPayments) :
                app' = getPayments(app, ArrayResponse(sq)))
            => IdsOf(app.payments) \subseteq IdsOf(app'.payments)]_vars

-----------------------------------------------------------------------------
(* The component served by the manager: fetches *)

\* a socket of the topic with the manager's handlers attached is open
Delivers(t) == mgr.conn[t] = "open" \/ mgr.det[t]["open"] > 0

WithinPageBounds(pg) ==
    pg.notifications + pg.assetRequests + pg.errorsLogged <= MaxEffects

PageUnchanged == UNCHANGED <<mgrVars, view, pay, objects, server, sockets, form, app, incoming, applied, diff, watched, delivered>>

GetAssetsStarts ==
    /\ ~page.isRefreshing
    /\ page' = pageGetAssets(page)
    /\ WithinPageBounds(page')
    /\ PageUnchanged

GetAssetsSettles ==
    \E outcome \in AssetOutcomes :
        /\ page.isRefreshing
        /\ page' = pageGetAssetsSettles(page, outcome)
        /\ PageUnchanged

PageGetInvoicesSettles ==
    \E outcome \in FetchOutcomes(HeldInvoices) :
        /\ page' = pageGetInvoices(page, outcome)
        /\ WithinPageBounds(page')
        /\ PageUnchanged

PageGetPaymentsSettles ==
    \E outcome \in FetchOutcomes(HeldPayments) :
        /\ page' = pageGetPayments(page, outcome)
        /\ WithinPageBounds(page')
        /\ PageUnchanged

\* InvoiceService.createInvoice settles
SubmitInvoiceForm ==
    \E created \in CreatedInvoices, ok, channelOffline \in BOOLEAN :
        /\ page' = submitInvoiceForm(page, IF ok THEN Fetched(created) ELSE Rejected,
                                     channelOffline)
        /\ WithinPageBounds(page')
        /\ PageUnchanged

\* a message event of the manager's invoices socket
PageInvoiceMessage ==
    \E event \in Events(PushedInvoices) :
        /\ Delivers("invoices")
        /\ page' = _handleInvoiceMessage(page, event)
        /\ WithinPageBounds(page')
        /\ PageUnchanged

\* a request the manager issued through AssetService settles
AssetServiceSettles ==
    /\ page.outstanding > 0
    /\ page' = [page EXCEPT !.outstanding = @ - 1]
    /\ PageUnchanged

\* a message event of the manager's payments socket
PagePaymentMessage ==
    \E event \in Events(PushedPayments) :
        /\ Delivers("payments")
        /\ page' = _handlePaymentMessage(page, event)
        /\ WithinPageBounds(page')
        /\ PageUnchanged

\* a message event of the manager's balances socket
PageBalanceMessage ==
    \E event \in BalanceEvents :
        /\ Delivers("balances")
        /\ page' = _handleBalanceMessage(page, event)
        /\ WithinPageBounds(page')
        /\ PageUnchanged

NextPage ==
    \/ GetAssetsStarts
    \/ GetAssetsSettles
    \/ PageGetInvoicesSettles
    \/ PageGetPaymentsSettles
    \/ SubmitInvoiceForm
    \/ PageInvoiceMessage
    \/ PagePaymentMessage
    \/ PageBalanceMessage
    \/ AssetServiceSettles

\* the manager after initialize(), its three sockets open
mgrServing ==
    [initialize(mgrInitial, {}) EXCEPT !.conn = [t \in Topics |-> "open"]]

InitPage ==
    /\ mgr = mgrServing
    /\ polled = FALSE
    /\ autoReconnects = 0
    /\ counting = FALSE
    /\ ctorThrows = FALSE
    /\ app = appInitial
    /\ incoming = <<>>
    /\ applied = 0
    /\ diff = noDiff
    /\ watched = 0
    /\ delivered = {}
    /\ page \in {[pageInitial EXCEPT !.appIsComponent = b] : b \in BOOLEAN}
    /\ view = viewInitial
    /\ pay = payInitial
    /\ objects = objectsInitial
    /\ server = serverInitial
    /\ sockets = socketsInitial
    /\ form = formInitial

SpecPage == InitPage /\ [][NextPage]_vars

\* C13: a fetch of assets, invoices or payments that fails leaves the
\* collection it was to fill as it was.
C13_FailedFetchKeepsCollection ==
    [][/\ (GetAssetsSettles /\ page' = pageGetAssetsSettles(page, Rejected))
            => page'.assets = page.assets
       /\ (PageGetInvoicesSettles /\ page' = pageGetInvoices(page, Rejected))
            => page'.invoices = page.invoices
       /\ (PageGetPaymentsSettles /\ page' = pageGetPayments(page, Rejected))
            => page'.payments = page.payments]_vars

\* the created-invoice dialog is open and the message reports as paid an
\* invoice whose id or, failing that, whose payment hash is the displayed one
MatchesDisplayed(pg, event) ==
    /\ pg.createdInvoiceDialog.show
    /\ IsObject(event)
    /\ event.type = "invoice_update"
    /\ "data" \in DOMAIN event
    /\ event.data.status = "paid"
    /\ \/ event.data.id = pg.createdInvoice.id
       \/ event.data.payment_hash = pg.createdInvoice.payment_hash

\* C14: a paid invoice message that matches the invoice shown in the open
\* created-invoice dialog, by id or by payment hash, closes the dialog and
\* shows one paid confirmation.
C14_PaidMatchClosesDialog ==
    [][\A event \in Events(PushedInvoices) :
          (/\ PageInvoiceMessage
           /\ page' = _handleInvoiceMessage(page, event)
           /\ MatchesDisplayed(page, event))
          => /\ ~page'.createdInvoiceDialog.show
             /\ page'.notifications = page.notifications + 1]_vars

\* the payment the component holds under the id of the pushed one
KnownPayment(pg, event) ==
    pg.payments[CHOOSE i \in DOMAIN pg.payments : pg.payments[i].id = event.data.id]

CarriesPayment(pg, event) ==
    /\ IsObject(event)
    /\ event.type = "payment_update"
    /\ "data" \in DOMAIN event
    /\ event.data.id \in IdsOf(pg.payments)

\* C15: a pushed update of a held payment asks for the asset balances once if
\* it changes the payment's status to completed or to failed, and not at all
\* if it carries the status the payment already has.
C15_OneRefreshPerPaymentOutcome ==
    [][\A event \in Events(PushedPayments) :
          (/\ PagePaymentMessage
           /\ page' = _handlePaymentMessage(page, event)
           /\ CarriesPayment(page, event))
          => IF event.data.status = KnownPayment(page, event).status
             THEN page'.assetRequests = page.assetRequests
             ELSE event.data.status \in {"completed", "failed"}
                      => page'.assetRequests = page.assetRequests + 1]_vars

\* the message reports a completed payment: the handler calls for a refresh
CallsForRefresh(event) ==
    /\ IsObject(event)
    /\ event.type = "payment_update"
    /\ "data" \in DOMAIN event
    /\ event.data.status = "completed"

RefreshOutstanding(pg) == pg.isRefreshing \/ pg.outstanding > 0

-----------------------------------------------------------------------------
(* Push and poll in either order *)

\* the push message PushDelivers hands to the handler
WatchedMessage ==
    [type |-> "invoice_update",
     data |-> incoming[CHOOSE i \in DOMAIN incoming : incoming[i].id = watched]]

\* the collection after PushDelivers, then ApplySnapshot as a periodic poll
PushThenPoll ==
    getInvoices(handleInvoiceWebSocketMessage(app, WatchedMessage), FALSE,
                ArrayResponse(incoming)).invoices

\* the collection after ApplySnapshot as a periodic poll, then PushDelivers
PollThenPush ==
    handleInvoiceWebSocketMessage(getInvoices(app, FALSE, ArrayResponse(incoming)),
                                  WatchedMessage).invoices

\* what a row of the table shows of an invoice: its identity, its status and
\* whether it is highlighted as new or changed (_previousStatus is bookkeeping)
Shown(items) ==
    [i \in DOMAIN items |->
        [id |-> items[i].id, status |-> items[i].status,
         highlighted |-> isMarked(items[i])]]

\* C17: before the payment of the watched invoice is delivered, by the push
\* message and by the poll snapshot, the rows that result from applying the
\* push first and the rows that result from applying the poll first are the
\* same.
C17_PushAndPollCommute ==
    (watched # 0 /\ delivered = {} /\ applied = 0)
        => Shown(PushThenPoll) = Shown(PollThenPush)

-----------------------------------------------------------------------------
(* Invoices the component has not seen *)

\* the message carries an invoice whose id is in none of the given invoices
IntroducesInvoice(items, event) ==
    /\ IsObject(event)
    /\ event.type = "invoice_update"
    /\ "data" \in DOMAIN event
    /\ event.data.id \notin IdsOf(items)

\* C18: an invoices message that introduces an invoice the component does not
\* hold shows no toast, asks for no asset balances and leaves the
\* created-invoice dialog as it is, whatever status the invoice carries.
C18_NewInvoiceHasNoEffect ==
    [][\A event \in Events(PushedInvoices) :
          (/\ PageInvoiceMessage
           /\ page' = _handleInvoiceMessage(page, event)
           /\ IntroducesInvoice(page.invoices, event))
          => /\ page'.notifications = page.notifications
             /\ page'.assetRequests = page.assetRequests
             /\ page'.createdInvoiceDialog = page.createdInvoiceDialog]_vars

-----------------------------------------------------------------------------
(* Errors and closes of a topic *)

\* the manager object: its connections table, state and published status;
\* the sockets it no longer refers to are not part of it
ManagerState(s) == [s EXCEPT !.det = mgrInitial.det]

\* the topic's connection is cleared and, if no topic has one then, the
\* polling timer runs and a reconnect is scheduled unless the attempts are
\* used up
ClearedAndFallenBack(s, t) ==
    /\ s.conn[t] = "null"
    /\ AllNull(s) =>
          /\ s.pollingInterval
          /\ s.fallbackPolling
          /\ ~s.connected
          /\ s.reconnectTimeout \/ s.reconnectAttempts >= maxReconnectAttempts

\* C19: in every state the manager reaches and for every topic, the error
\* handler leaves the manager as the close handler does, both for an event
\* of the socket the table refers to and for an error raised with another
\* socket (or none) in the table, as the one a throwing constructor makes
\* connect() and initialize() handle; the connection is cleared and, once no
\* topic has one, polling runs and a reconnect is scheduled.
C19_ErrorActsAsClose ==
    \A t \in Topics :
        /\ mgr.conn[t] # "null"
              => _handleConnectionError(mgr, t, TRUE) = _handleConnectionClose(mgr, t, TRUE)
        /\ ManagerState(_handleConnectionError(mgr, t, FALSE))
              = ManagerState(_handleConnectionClose(mgr, t, FALSE))
        /\ ClearedAndFallenBack(_handleConnectionError(mgr, t, FALSE), t)
        /\ ClearedAndFallenBack(_handleConnectionError(mgr, t, TRUE), t)

\* initialize() has returned although every constructor threw: the errors
\* were handled as closes, polling runs and a reconnect is scheduled
C19_Witness ==
    /\ ctorThrows
    /\ mgr.userId
    /\ AllNull(mgr)
    /\ mgr.pollingInterval
    /\ mgr.reconnectTimeout
    /\ mgr.reconnectAttempts > 0

-----------------------------------------------------------------------------
(* The manager with its message handlers *)

\* the manager is initialized and torn down, its sockets open, close and
\* fail, its reconnect timer fires, and the open sockets deliver messages
NextServed ==
    \/ Initialize
    \/ Destroy
    \/ ReconnectTimerFires
    \/ SocketOpen
    \/ SocketClose
    \/ SocketFail
    \/ PageInvoiceMessage
    \/ PagePaymentMessage
    \/ PageBalanceMessage

\* the component after refreshData() has loaded one asset, one pending
\* invoice and one pending payment
pageLoaded ==
    pageGetPayments(
        pageGetInvoices(
            pageGetAssetsSettles(pageInitial,
                                 Fetched(ArrayResponse(<<[asset_id |-> "a"]>>))),
            Fetched(ArrayResponse(<<[id |-> 1, status |-> "pending"]>>))),
        Fetched(ArrayResponse(<<[id |-> 1, status |-> "pending"]>>)))

InitServed ==
    /\ mgr = mgrInitial
    /\ polled = FALSE
    /\ autoReconnects = 0
    /\ counting = FALSE
    /\ ctorThrows = FALSE
    /\ app = appInitial
    /\ incoming = <<>>
    /\ applied = 0
    /\ diff = noDiff
    /\ watched = 0
    /\ delivered = {}
    /\ page \in {[pageLoaded EXCEPT !.appIsComponent = b] : b \in BOOLEAN}
    /\ view = viewInitial
    /\ pay = payInitial
    /\ objects = objectsInitial
    /\ server = serverInitial
    /\ sockets = socketsInitial
    /\ form = formInitial

SpecServed == InitServed /\ [][NextServed]_vars

\* a message step that is not a stuttering step
MessageArrives ==
    /\ page' # page
    /\ PageInvoiceMessage \/ PagePaymentMessage \/ PageBalanceMessage

\* the handler of the step has run into its catch block
HandlerFails ==
    /\ page'.errorsLogged # page.errorsLogged
    /\ \/ PageInvoiceMessage /\ page' = _handleInvoiceMessage(page, NotJson)
       \/ PagePaymentMessage /\ page' = _handlePaymentMessage(page, NotJson)
       \/ PageBalanceMessage /\ page' = _handleBalanceMessage(page, NotJson)
       \/ PageBalanceMessage /\ page' = _handleBalanceMessage(page, JsonNull)

\* C20: no message, well-formed or not, changes the manager (its connections
\* table, timers and status) or the collections held; a message that is not
\* JSON, or whose handling throws, changes nothing but the error log, and any
\* message handled after it on any topic has the effect it would have had
\* without it.
C20_HandlerErrorsAreContained ==
    [][/\ MessageArrives =>
             /\ mgr' = mgr
             /\ page'.invoices = page.invoices
             /\ page'.payments = page.payments
             /\ page'.assets = page.assets
             /\ app' = app
       /\ HandlerFails =>
             /\ page' = logError(page)
             /\ \A t \in Topics : Delivers(t)' = Delivers(t)
             /\ \A event \in Events(PushedInvoices) :
                    _handleInvoiceMessage(page', event)
                        = logError(_handleInvoiceMessage(page, event))
             /\ \A event \in Events(PushedPayments) :
                    _handlePaymentMessage(page', event)
                        = logError(_handlePaymentMessage(page, event))
             /\ \A event \in BalanceEvents :
                    _handleBalanceMessage(page', event)
                        = logError(_handleBalanceMessage(page, event))]_vars

\* a handler has logged an error and a paid invoice has been notified, the
\* collections are held and the three sockets are open
C20_Witness ==
    /\ page.errorsLogged > 0
    /\ page.notifications > 0
    /\ page.invoices # <<>>
    /\ page.payments # <<>>
    /\ \A t \in Topics : mgr.conn[t] = "open"

-----------------------------------------------------------------------------
(* Entities without identity *)

\* the id of an entity that carries none (undefined === undefined holds, as
\* NoId = NoId does)
NoId == 0

\* incoming invoices, with or without an id
IncomingInvoices == [id : HeldIds \cup {NoId}, status : InvoiceStatuses]

\* a push message is handled
MergePush ==
    \E data \in Messages(IncomingInvoices) :
        /\ app' = handleInvoiceWebSocketMessage(app, data)
        /\ WithinAppBounds(app')
        /\ diff' = noDiff
        /\ UNCHANGED <<mgrVars, page, view, pay, objects, server, sockets, form, incoming, applied, watched, delivered>>

\* a poll response is diffed by checkForChanges and applied by getInvoices
MergePoll ==
    \E isInitialLoad \in BOOLEAN, sq \in Snapshots(IncomingInvoices) :
        /\ app' = getInvoices(app, isInitialLoad, ArrayResponse(sq))
        /\ WithinAppBounds(app')
        /\ diff' =
               LET checked == checkForChanges(processedInvoices(ArrayResponse(sq)),
                                              app.invoices)
               IN  [by |-> "checkForChanges",
                    hasChanges |-> checked.hasChanges,
                    transitions |-> Transitions(checked.newItems)]
        /\ UNCHANGED <<mgrVars, page, view, pay, objects, server, sockets, form, incoming, applied, watched, delivered>>

\* a poll response is diffed by InvoiceService.findChanges
MergeFindChanges ==
    \E sq \in Snapshots(IncomingInvoices) :
        /\ diff' =
               LET found == findChanges(processedInvoices(ArrayResponse(sq)),
                                        app.invoices)
               IN  [by |-> "findChanges",
                    hasChanges |-> Len(found.new) + Len(found.updated) > 0,
                    transitions |-> Transitions(found.new \o found.updated)]
        /\ UNCHANGED <<mgrVars, page, view, pay, objects, server, sockets, form, app, incoming, applied, watched, delivered>>

NextMerge ==
    \/ MergePush
    \/ MergePoll
    \/ MergeFindChanges

InitMerge ==
    /\ mgr = mgrInitial
    /\ polled = FALSE
    /\ autoReconnects = 0
    /\ counting = FALSE
    /\ ctorThrows = FALSE
    /\ app = appInitial
    /\ incoming = <<>>
    /\ applied = 0
    /\ diff = noDiff
    /\ watched = 0
    /\ delivered = {}
    /\ page = pageInitial
    /\ view = viewInitial
    /\ pay = payInitial
    /\ objects = objectsInitial
    /\ server = serverInitial
    /\ sockets = socketsInitial
    /\ form = formInitial

SpecMerge == InitMerge /\ [][NextMerge]_vars

\* C21: an incoming invoice without identity is never inserted into the local
\* collection and never reported as a transition by a diff.
C21_IdlessEntitiesAreDropped ==
    /\ \A i \in DOMAIN app.invoices : app.invoices[i].id # NoId
    /\ \A i \in DOMAIN diff.transitions : diff.transitions[i].id # NoId

-----------------------------------------------------------------------------
(* The transaction table *)

ViewUnchanged == UNCHANGED <<mgrVars, app, incoming, applied, diff, watched, delivered, page, pay, objects, server, sockets, form>>

\* getInvoices / getPayments have stored the collections: combineTransactions()
CombineTransactions ==
    /\ view' = combineTransactions(view)
    /\ ViewUnchanged

\* the user picks a direction, a status, a search text: applyFilters()
ChangeDirection ==
    \E direction \in DirectionFilters :
        /\ view' = applyFilters([view EXCEPT !.filters.direction = direction])
        /\ ViewUnchanged

ChangeStatus ==
    \E status \in StatusFilters :
        /\ view' = applyFilters([view EXCEPT !.filters.status = status])
        /\ ViewUnchanged

ChangeSearchText ==
    \E searchText \in SearchTexts :
        /\ view' = applyFilters([view EXCEPT !.filters.searchText = searchText])
        /\ ViewUnchanged

SearchByDate ==
    \E searchDate \in SearchDates :
        /\ view' = searchByDate([view EXCEPT !.searchDate = searchDate])
        /\ ViewUnchanged

ClearDateSearch ==
    /\ view' = clearDateSearch(view)
    /\ ViewUnchanged

ResetFilters ==
    /\ view' = resetFilters(view)
    /\ ViewUnchanged

\* the user turns to another page of the table that has rows
ChangePage ==
    \E p \in 1..MaxRows :
        /\ (p - 1) * view.pagination.rowsPerPage < Len(view.filteredTransactions)
        /\ view' = [view EXCEPT !.pagination.page = p]
        /\ ViewUnchanged

NextView ==
    \/ CombineTransactions
    \/ ChangeDirection
    \/ ChangeStatus
    \/ ChangeSearchText
    \/ SearchByDate
    \/ ClearDateSearch
    \/ ResetFilters
    \/ ChangePage

InitView ==
    /\ mgr = mgrInitial
    /\ polled = FALSE
    /\ autoReconnects = 0
    /\ counting = FALSE
    /\ ctorThrows = FALSE
    /\ app = appInitial
    /\ incoming = <<>>
    /\ applied = 0
    /\ diff = noDiff
    /\ watched = 0
    /\ delivered = {}
    /\ page = pageInitial
    /\ view \in {[viewInitial EXCEPT !.invoices = is, !.payments = ps] :
                    <<is, ps>> \in {c \in Collections(ViewInvoices) \X Collections(ViewPayments) :
                                        Len(c[1]) + Len(c[2]) <= MaxRows}}
    /\ pay = payInitial
    /\ objects = objectsInitial
    /\ server = serverInitial
    /\ sockets = socketsInitial
    /\ form = formInitial

SpecView == InitView /\ [][NextView]_vars

DayOf(date) == date \div TicksPerDay

SameLetter(c, d) == c = d \/ {c, d} \in {{"a", "A"}, {"b", "B"}, {"c", "C"}}

FoundIn(text, searched) ==
    \E k \in 0..(Len(text) - Len(searched)) :
        \A i \in 1..Len(searched) : SameLetter(text[k + i], searched[i])

SatisfiesFilters(tx) ==
    /\ view.filters.direction \in {"all", tx.direction}
    /\ view.filters.status \in {"all", tx.status}
    /\ \/ view.filters.searchText = <<>>
       \/ FoundIn(tx.memo, view.filters.searchText)
       \/ FoundIn(tx.payment_hash, view.filters.searchText)
    /\ \A i \in DOMAIN view.searchDate.from :
           DayOf(tx.created_at) >= DayOf(view.searchDate.from[i])
    /\ \A i \in DOMAIN view.searchDate.to :
           DayOf(tx.created_at) <= DayOf(view.searchDate.to[i])

\* C22: the filtered transactions are exactly the combined transactions that
\* satisfy every active filter (direction, status, text in memo or payment
\* hash without regard to case, calendar days from..to), in the order of the
\* combined list.
C22_FilteredAreExactlyTheMatching ==
    view.filteredTransactions = SelectSeq(view.combinedTransactions, SatisfiesFilters)

C22_Witness ==
    /\ view.filters.searchText # <<>>
    /\ view.filters.direction # "all"
    /\ view.searchDate.to # <<>>
    /\ Len(view.filteredTransactions) = 1
    /\ Len(view.combinedTransactions) = 2
    /\ view.filteredTransactions[1].created_at > view.searchDate.to[1]

\* C23: the combined transactions are in descending order of created_at, and
\* transactions with equal created_at are in ascending order of their id.
C23_CombinedOrderIsDetermined ==
    \A i, j \in DOMAIN view.combinedTransactions :
        i < j =>
            LET a == view.combinedTransactions[i]
                b == view.combinedTransactions[j]
            IN  \/ a.created_at > b.created_at
                \/ a.created_at = b.created_at /\ a.id <= b.id

StartOffset(pagination) == (pagination.page - 1) * pagination.rowsPerPage

\* C24: a step after which the filtered transactions do not reach the start
\* offset of the page shown before it leaves the page index at 1, and whenever
\* there are filtered transactions the start offset of the page lies among them.
C24_PageFollowsFilteredResult ==
    /\ [](Len(view.filteredTransactions) > 0
            => StartOffset(view.pagination) < Len(view.filteredTransactions))
    /\ [][StartOffset(view.pagination) >= Len(view'.filteredTransactions)
            => view'.pagination.page = 1]_vars

C24_Witness ==
    /\ view.pagination.page = 1
    /\ Len(view.combinedTransactions) > RowsPerPage
    /\ Len(view.filteredTransactions) \in 1..RowsPerPage
    /\ paginatedItems(view) = view.filteredTransactions

-----------------------------------------------------------------------------
(* Paying invoices *)

PayUnchanged ==
    UNCHANGED <<mgrVars, app, incoming, applied, diff, watched, delivered, page, view, objects, server, sockets, form>>

\* getAssets resolves with the balance the backend reports
AssetsFetched ==
    \E balance \in Balances :
        /\ pay' = assetsFetched(pay, balance)
        /\ PayUnchanged

\* the user picks the asset in the list, which an open dialog covers
OpenPaymentDialog ==
    /\ ~pay.paymentDialog.show
    /\ pay' = openPaymentDialog(pay, ListedAsset(pay.assets))
    /\ PayUnchanged

ClosePaymentDialog ==
    /\ pay' = closePaymentDialog(pay)
    /\ PayUnchanged

ResetPaymentForm ==
    /\ pay' = resetPaymentForm(pay)
    /\ PayUnchanged

ParseInvoice ==
    \E paymentRequest \in PaymentRequests :
        /\ pay.paymentDialog.show
        /\ pay' = parseInvoice(pay, paymentRequest)
        /\ PayUnchanged

SubmitPaymentForm ==
    /\ pay.paymentDialog.show
    /\ Len(pay.pending) < MaxPending
    /\ pay' = submitPaymentForm(pay)
    /\ PayUnchanged

PayInvoiceResolves ==
    \E i \in DOMAIN pay.pending, response \in PaymentResponses :
        /\ pay.pending[i].kind = "pay"
        /\ pay' = payInvoiceResolves(pay, i, response)
        /\ PayUnchanged

PayInvoiceRejectsAsInternal ==
    \E i \in DOMAIN pay.pending :
        /\ pay.pending[i].kind = "pay"
        /\ pay' = payInvoiceRejectsAsInternal(pay, i)
        /\ PayUnchanged

PayInvoiceRejects ==
    \E i \in DOMAIN pay.pending, channelOffline \in BOOLEAN :
        /\ pay.pending[i].kind = "pay"
        /\ pay' = payInvoiceRejects(pay, i, channelOffline)
        /\ PayUnchanged

InternalPaymentResolves ==
    \E i \in DOMAIN pay.pending, response \in PaymentResponses :
        /\ pay.pending[i].kind = "internal"
        /\ pay' = internalPaymentResolves(pay, i, response)
        /\ PayUnchanged

InternalPaymentRejects ==
    \E i \in DOMAIN pay.pending :
        /\ pay.pending[i].kind = "internal"
        /\ pay' = internalPaymentRejects(pay, i)
        /\ PayUnchanged

NextPay ==
    \/ AssetsFetched
    \/ OpenPaymentDialog
    \/ ClosePaymentDialog
    \/ ResetPaymentForm
    \/ ParseInvoice
    \/ SubmitPaymentForm
    \/ PayInvoiceResolves
    \/ PayInvoiceRejectsAsInternal
    \/ PayInvoiceRejects
    \/ InternalPaymentResolves
    \/ InternalPaymentRejects

InitPay ==
    /\ mgr = mgrInitial
    /\ polled = FALSE
    /\ autoReconnects = 0
    /\ counting = FALSE
    /\ ctorThrows = FALSE
    /\ app = appInitial
    /\ incoming = <<>>
    /\ applied = 0
    /\ diff = noDiff
    /\ watched = 0
    /\ delivered = {}
    /\ page = pageInitial
    /\ view = viewInitial
    /\ pay = payInitial
    /\ objects = objectsInitial
    /\ server = serverInitial
    /\ sockets = socketsInitial
    /\ form = formInitial

SpecPay == InitPay /\ [][NextPay]_vars

\* C25: a pay or internal-payment request answered with data leaves the stored
\* user_balance of the asset at the balance stored before less the amount paid,
\* or at 0 where that is negative; no stored balance is negative.
C25_BalanceAfterPayment ==
    /\ [](pay.store >= 0)
    /\ [][\A i \in DOMAIN pay.pending, response \in PaymentResponses :
            (\/ pay.pending[i].kind = "pay" /\ pay' = payInvoiceResolves(pay, i, response)
             \/ pay.pending[i].kind = "internal"
                    /\ pay' = internalPaymentResolves(pay, i, response))
                => pay'.store = Max(0, pay.store - response.asset_amount)]_vars

\* C30: at most one pay or internal-payment request is in flight.
C30_OnePaymentInFlight == Len(pay.pending) <= 1

-----------------------------------------------------------------------------
(* Asset snapshots *)

\* C26: a step that applies an asset snapshot, the array a getAssets request
\* resolved with or the array of an assets_update message, leaves exactly that
\* snapshot as the assets held and shows no notification.
C26_SnapshotReplacesAssets ==
    [][/\ \A outcome \in AssetOutcomes :
            (/\ page.isRefreshing
             /\ outcome.ok /\ outcome.response.isArray
             /\ page' = pageGetAssetsSettles(page, outcome))
                => /\ page'.assets = outcome.response.data
                   /\ page'.notifications = page.notifications
       /\ \A event \in BalanceEvents :
            (/\ Delivers("balances")
             /\ IsObject(event)
             /\ event.type = "assets_update" /\ event.isArray
             /\ page' = _handleBalanceMessage(page, event))
                => /\ page'.assets = event.data
                   /\ page'.notifications = page.notifications]_vars

-----------------------------------------------------------------------------
(* Mapping for display *)

ObjectsUnchanged ==
    UNCHANGED <<mgrVars, app, incoming, applied, diff, watched, delivered, page, view, pay, server, sockets, form>>

MapTransaction ==
    \E type \in {"", "invoice", "payment"} :
        /\ objects' = mapTransactionObjects(objects, type)
        /\ ObjectsUnchanged

MapInvoice ==
    /\ objects' = InvoiceService_mapInvoice(objects)
    /\ ObjectsUnchanged

MapPayment ==
    /\ objects' = PaymentService_mapPayment(objects)
    /\ ObjectsUnchanged

NextObjects ==
    \/ MapTransaction
    \/ MapInvoice
    \/ MapPayment

InitObjects ==
    /\ mgr = mgrInitial
    /\ polled = FALSE
    /\ autoReconnects = 0
    /\ counting = FALSE
    /\ ctorThrows = FALSE
    /\ app = appInitial
    /\ incoming = <<>>
    /\ applied = 0
    /\ diff = noDiff
    /\ watched = 0
    /\ delivered = {}
    /\ page = pageInitial
    /\ view = viewInitial
    /\ pay = payInitial
    /\ objects \in [transaction : Transactions,
                    extra : ExtraObjects \cup {NoExtra},
                    mapped : {NotMapped}]
    /\ server = serverInitial
    /\ sockets = socketsInitial
    /\ form = formInitial

SpecObjects == InitObjects /\ [][NextObjects]_vars

\* C27: mapping a transaction for display changes neither the transaction
\* record nor the extra object it refers to.
C27_MappingLeavesInputUnchanged ==
    [][objects'.transaction = objects.transaction /\ objects'.extra = objects.extra]_vars

-----------------------------------------------------------------------------
(* Sockets the manager has replaced *)

\* the close event of a socket of topic t that closeAll() close()d while it
\* was open and that connections[t] no longer refers to
StaleClose(t) ==
    /\ mgr.det[t]["closingC"] > 0
    /\ mgr' = _handleConnectionClose([mgr EXCEPT !.det[t]["closingC"] = @ - 1], t, FALSE)

\* C28: the close event of a socket the manager has closed and replaced leaves
\* the current connections as they are and starts neither a reconnect timer
\* nor fallback polling.
C28_StaleCloseIsIgnored ==
    [][\A t \in Topics :
          StaleClose(t) => /\ mgr'.conn = mgr.conn
                           /\ mgr'.reconnectTimeout = mgr.reconnectTimeout
                           /\ mgr'.fallbackPolling = mgr.fallbackPolling
                           /\ mgr'.pollingInterval = mgr.pollingInterval]_vars

\* sockets of topic t that are connecting or open and that connections[t]
\* does not refer to
Unreferenced(t) == mgr.det[t]["connecting"] + mgr.det[t]["open"]

\* C29: every socket of a topic that is connecting or open is the one
\* connections[topic] refers to, so each topic has at most one such socket.
C29_OneLiveSocketPerTopic == \A t \in Topics : Unreferenced(t) = 0

-----------------------------------------------------------------------------
(* Poll responses overtaking each other and the pushes *)

\* the invoices the backend creates in this scenario
ServedIds == {1}

ServerUnchanged ==
    UNCHANGED <<mgrVars, incoming, applied, diff, watched, delivered, page, view, pay, objects,
                sockets, form>>

\* the backend creates a pending invoice and may push it
InvoiceCreated ==
    \E id \in ServedIds, pushed \in BOOLEAN :
        /\ \A i \in DOMAIN server.invoices : server.invoices[i].id # id
        /\ pushed => Len(server.pushes) < MaxInFlight
        /\ LET invoice == [id |-> id, status |-> "pending"]
           IN  server' =
                   [server EXCEPT
                       !.invoices = Append(@, invoice),
                       !.pushes = IF pushed
                                  THEN Append(@, [type |-> "invoice_update",
                                                  data |-> invoice])
                                  ELSE @]
        /\ UNCHANGED app
        /\ ServerUnchanged

\* the backend settles a pending invoice and may push it; a settled invoice
\* stays settled
InvoiceSettled ==
    \E i \in DOMAIN server.invoices, pushed \in BOOLEAN :
        /\ server.invoices[i].status = "pending"
        /\ pushed => Len(server.pushes) < MaxInFlight
        /\ LET invoice == [server.invoices[i] EXCEPT !.status = "paid"]
           IN  server' =
                   [server EXCEPT
                       !.invoices[i] = invoice,
                       !.pushes = IF pushed
                                  THEN Append(@, [type |-> "invoice_update",
                                                  data |-> invoice])
                                  ELSE @]
        /\ UNCHANGED app
        /\ ServerUnchanged

\* getInvoices(isInitialLoad) sends its request; the backend answers with the
\* invoices it holds at that moment
GetInvoicesRequested ==
    \E isInitialLoad \in BOOLEAN :
        /\ Len(server.polls) < MaxInFlight
        /\ server' = [server EXCEPT
                          !.polls = Append(@, [isInitialLoad |-> isInitialLoad,
                                               response |-> ArrayResponse(server.invoices)])]
        /\ UNCHANGED app
        /\ ServerUnchanged

\* the .then callback of any of the requests in flight runs
GetInvoicesResolves ==
    \E i \in DOMAIN server.polls :
        /\ app' = getInvoices(app, server.polls[i].isInitialLoad, server.polls[i].response)
        /\ server' = [server EXCEPT !.polls = Without(@, i)]
        /\ ServerUnchanged

\* the invoice socket delivers its messages in the order they were sent
InvoicePushArrives ==
    /\ server.pushes # <<>>
    /\ app' = handleInvoiceWebSocketMessage(app, Head(server.pushes))
    /\ server' = [server EXCEPT !.pushes = Tail(@)]
    /\ ServerUnchanged

NextServer ==
    \/ InvoiceCreated
    \/ InvoiceSettled
    \/ GetInvoicesRequested
    \/ GetInvoicesResolves
    \/ InvoicePushArrives

InitServer ==
    /\ mgr = mgrInitial
    /\ polled = FALSE
    /\ autoReconnects = 0
    /\ counting = FALSE
    /\ ctorThrows = FALSE
    /\ app = appInitial
    /\ incoming = <<>>
    /\ applied = 0
    /\ diff = noDiff
    /\ watched = 0
    /\ delivered = {}
    /\ page = pageInitial
    /\ view = viewInitial
    /\ pay = payInitial
    /\ objects = objectsInitial
    /\ server = serverInitial
    /\ sockets = socketsInitial
    /\ form = formInitial

SpecServer == InitServer /\ [][NextServer]_vars

\* C31: once a local invoice is paid, no poll response and no push message
\* makes its local status anything else.
C31_PaidStaysPaid ==
    [][\A i \in DOMAIN app.invoices, j \in DOMAIN app'.invoices :
           (app.invoices[i].status = "paid" /\ app'.invoices[j].id = app.invoices[i].id)
               => app'.invoices[j].status = "paid"]_vars

-----------------------------------------------------------------------------
(* The manager's counters, timers and published status *)

\* C32: reconnectAttempts never exceeds maxReconnectAttempts, and a failed
\* connection round adds one attempt, however many close and error events
\* its sockets deliver. connect() leaves the counter at 0 when no constructor
\* throws, so the counter is at most 1 until the next connect().
C32_OneAttemptPerRound ==
    /\ mgr.reconnectAttempts <= maxReconnectAttempts
    /\ ~ctorThrows => mgr.reconnectAttempts <= 1

\* the reconnect timers that have been set and have neither fired nor been
\* cleared
PendingReconnectTimers(s) == (IF s.reconnectTimeout THEN 1 ELSE 0) + s.leakedTimers

\* C33: at most one reconnect timer is pending, and a pending reconnect timer
\* is the one state.reconnectTimeout refers to.
C33_PendingTimerIsReferenced ==
    /\ PendingReconnectTimers(mgr) <= 1
    /\ mgr.leakedTimers = 0

\* the polling intervals that have been set and not cleared
PollingIntervals(s) == (IF s.pollingInterval THEN 1 ELSE 0) + s.leakedIntervals

\* C34: state.fallbackPolling is true exactly when state.pollingInterval is
\* non-null, and at most one polling interval exists.
C34_FallbackIffPollingTimer ==
    /\ mgr.fallbackPolling <=> mgr.pollingInterval
    /\ PollingIntervals(mgr) <= 1

\* polling runs, and since it started a second close or error event has found
\* every topic without a connection and called _startFallbackPolling again
C34_Witness ==
    /\ mgr.fallbackPolling
    /\ mgr.pollingInterval
    /\ mgr.reconnectAttempts >= 2

\* C35: state.connected and the connected status in the store are true only
\* while some topic has a connection object.
C35_ConnectedHasConnection ==
    (mgr.connected \/ mgr.store.connected) => ~AllNull(mgr)

\* C36: the fallbackPolling value in the store tells whether a polling
\* interval is running.
C36_PublishedFallbackIsActual ==
    mgr.store.fallbackPolling <=> PollingIntervals(mgr) > 0

-----------------------------------------------------------------------------
(* Balance refreshes called for while a fetch is in flight *)

\* a request that has been sent settles
FairPage ==
    /\ WF_vars(GetAssetsSettles)
    /\ WF_vars(AssetServiceSettles)

SpecPageFair == InitPage /\ [][NextPage]_vars /\ FairPage

\* the listassets requests that have not settled
AssetFetchesInFlight(pg) == (IF pg.isRefreshing THEN 1 ELSE 0) + pg.outstanding

\* C37: at most one asset fetch is in flight, and a getAssets call made while
\* a fetch is in flight is followed by a fetch that begins after it.
C37_NoRefreshLost ==
    /\ [](AssetFetchesInFlight(page) <= 1)
    /\ [](page.refreshDropped => <>~page.refreshDropped)

-----------------------------------------------------------------------------
(* The app's auto-refresh interval and its sockets *)

SocketsUnchanged ==
    UNCHANGED <<mgrVars, app, incoming, applied, diff, watched, delivered, page, view, pay,
                objects, server, form>>

WithinSocketBounds(w) == \A type \in SocketTypes : w.detached[type] <= MaxDetached

SocketsStep(w) ==
    /\ WithinSocketBounds(w)
    /\ sockets' = w
    /\ SocketsUnchanged

Created ==
    \E throws \in BOOLEAN :
        /\ sockets = socketsInitial
        /\ SocketsStep(app_created(sockets, throws))

Activated ==
    \E throws \in BOOLEAN :
        /\ SocketsStep(app_activated(sockets, throws))

Deactivated ==
    /\ SocketsStep(app_deactivated(sockets))

BeforeUnmount ==
    /\ SocketsStep(app_beforeUnmount(sockets))

WebSocketReconnectTimerFires ==
    \E throws \in BOOLEAN :
        /\ sockets.websocketReconnectTimeout
        /\ SocketsStep(websocketReconnectCallback(sockets, throws))

\* the socket websockets[type] refers to delivers its close event
WebSocketCloses ==
    \E type \in SocketTypes :
        /\ sockets.websockets[type]
        /\ SocketsStep(handleWebSocketClose(sockets, type, TRUE))

\* a socket websockets[type] no longer refers to delivers its close event
DetachedWebSocketCloses ==
    \E type \in SocketTypes :
        /\ sockets.detached[type] > 0
        /\ SocketsStep(handleWebSocketClose(
                           [sockets EXCEPT !.detached[type] = @ - 1], type, FALSE))

NextSockets ==
    \/ Created
    \/ Activated
    \/ Deactivated
    \/ BeforeUnmount
    \/ WebSocketReconnectTimerFires
    \/ WebSocketCloses
    \/ DetachedWebSocketCloses

InitSockets ==
    /\ mgr = mgrInitial
    /\ polled = FALSE
    /\ autoReconnects = 0
    /\ counting = FALSE
    /\ ctorThrows = FALSE
    /\ app = appInitial
    /\ incoming = <<>>
    /\ applied = 0
    /\ diff = noDiff
    /\ watched = 0
    /\ delivered = {}
    /\ page = pageInitial
    /\ view = viewInitial
    /\ pay = payInitial
    /\ objects = objectsInitial
    /\ server = serverInitial
    /\ sockets = socketsInitial
    /\ form = formInitial

SpecSockets == InitSockets /\ [][NextSockets]_vars

\* C38: while websocketConnected is true no auto-refresh interval is active.
C38_NoAutoRefreshWhileConnected ==
    sockets.websocketConnected => ~sockets.refreshInterval

-----------------------------------------------------------------------------
(* The invoice dialog and its requests *)

FormUnchanged ==
    UNCHANGED <<mgrVars, app, incoming, applied, diff, watched, delivered, page, view, pay,
                objects, server, sockets>>

OpenInvoiceDialog ==
    \E asset \in FormAssets :
        /\ ~form.invoiceDialog.show
        /\ form' = openInvoiceDialog(form, asset)
        /\ FormUnchanged

CloseInvoiceDialog ==
    /\ form.invoiceDialog.show
    /\ form' = closeInvoiceDialog(form)
    /\ FormUnchanged

\* activated() resets the form
ResetInvoiceForm ==
    /\ form' = resetInvoiceForm(form)
    /\ FormUnchanged

\* the user edits the amount
ChangeAmount ==
    \E amount \in FormAmounts :
        /\ form.invoiceDialog.show
        /\ form' = [form EXCEPT !.invoiceDialog.form.amount = amount]
        /\ FormUnchanged

SubmitInvoiceFormStarts ==
    /\ form.invoiceDialog.show
    /\ Len(form.pending) < MaxPending
    /\ form' = submitInvoiceFormStarts(form)
    /\ FormUnchanged

CreateInvoiceResolves ==
    \E i \in DOMAIN form.pending :
        /\ form' = createInvoiceResolves(form, i)
        /\ FormUnchanged

CreateInvoiceRejects ==
    \E i \in DOMAIN form.pending, channelOffline \in BOOLEAN :
        /\ form' = createInvoiceRejects(form, i, channelOffline)
        /\ FormUnchanged

NextForm ==
    \/ OpenInvoiceDialog
    \/ CloseInvoiceDialog
    \/ ResetInvoiceForm
    \/ ChangeAmount
    \/ SubmitInvoiceFormStarts
    \/ CreateInvoiceResolves
    \/ CreateInvoiceRejects

InitForm ==
    /\ mgr = mgrInitial
    /\ polled = FALSE
    /\ autoReconnects = 0
    /\ counting = FALSE
    /\ ctorThrows = FALSE
    /\ app = appInitial
    /\ incoming = <<>>
    /\ applied = 0
    /\ diff = noDiff
    /\ watched = 0
    /\ delivered = {}
    /\ page = pageInitial
    /\ view = viewInitial
    /\ pay = payInitial
    /\ objects = objectsInitial
    /\ server = serverInitial
    /\ sockets = socketsInitial
    /\ form = formInitial

SpecForm == InitForm /\ [][NextForm]_vars

\* C39: at most one createInvoice request is in flight.
C39_OneInvoiceRequestInFlight == Len(form.pending) <= 1

====
